---------------------------- MODULE Spec2Model ----------------------------
(***************************************************************************)
(* Multi-tenant user, role and permission management (Learn-Stack).        *)
(*                                                                         *)
(* The store is the relational database behind the Django models Tenant,   *)
(* User, Role and UserRole (modules/users/models.py).  Rows are records,   *)
(* tables are sets of rows, foreign keys are the ids of the rows they      *)
(* name.  The services of modules/users/services.py, the endpoints of      *)
(* modules/users/views.py and the tenant middleware of                     *)
(* lms_project/middleware/tenant.py are the actions.                       *)
(***************************************************************************)
EXTENDS Integers, FiniteSets, Sequences, TLC

(***************************************************************************)
(* Bounds of the model.                                                    *)
(***************************************************************************)
MaxTenants == 2

MaxUsers == 2

MaxUserRoles == 3

\* The absent foreign key (NULL) and the absent string (None).
NoId == 0

NULL == "NULL"

Subdomains == {"t1", "t2"}

Names == {"a", "b"}

Emails == {"a@x", "b@x"}

Passwords == {"p1", "p2"}

Workers == {1, 2}

VARIABLES
    db,      \* the committed tables: tenants, users, roles, user_roles
    seq,     \* the id sequences of the four tables (never rewound)
    last,    \* the outcome of the last call (its arguments, status, error, result)
    pc,      \* per worker: the position of the call it is running
    call,    \* per worker: the arguments and locals of the call it is running
    pend     \* per worker: the rows its open transaction has written

vars == <<db, seq, last, pc, call, pend>>

(***************************************************************************)
(* Role names and the default permission table.                            *)
(***************************************************************************)
ADMIN == "admin"

INSTRUCTOR == "instructor"

STUDENT == "student"

RoleNames == {ADMIN, INSTRUCTOR, STUDENT}

\* TenantService._create_default_roles: the default_roles table.
DefaultPermissions(name) ==
    CASE name = ADMIN ->
            {"manage_users", "manage_roles", "manage_courses",
             "manage_assessments", "view_analytics", "manage_settings"}
      [] name = INSTRUCTOR ->
            {"create_courses", "manage_own_courses", "create_assessments",
             "grade_submissions", "view_student_progress", "issue_certificates"}
      [] OTHER ->
            {"enroll_courses", "view_courses", "submit_assessments",
             "view_own_progress", "view_certificates"}

(***************************************************************************)
(* The password hasher: an opaque one-way primitive.  A hash is a tagged   *)
(* value, so a stored raw password never verifies.                         *)
(***************************************************************************)
make_password(raw) == <<"hashed", raw>>

UnsetPassword == <<"unset", "">>

check_password(raw, stored) == stored = make_password(raw)

(***************************************************************************)
(* Tables.                                                                 *)
(***************************************************************************)
EmptyTables == [tenants |-> {}, users |-> {}, roles |-> {}, user_roles |-> {}]

InitSeq == [tenant |-> 1, user |-> 1, role |-> 1, user_role |-> 1]

TableNames == {"tenants", "users", "roles", "user_roles"}

\* What a statement of a transaction sees: committed rows and its own writes.
\* A row the transaction has rewritten hides the committed row of the same id.
Overlay(committed, own) ==
    [n \in TableNames |->
        own[n] \cup {row \in committed[n] : ~\E o \in own[n] : o.id = row.id}]

\* The rows of a view that are not committed as they stand.
Written(view, committed) ==
    [n \in TableNames |-> view[n] \ committed[n]]

Row(table, id) == CHOOSE row \in table : row.id = id

HasRow(table, id) == \E row \in table : row.id = id

\* The outcome of a statement or of a call.
Ok(D, S, ret) == [ok |-> TRUE, db |-> D, seq |-> S, err |-> "", ret |-> ret]

Raise(D, S, err) == [ok |-> FALSE, db |-> D, seq |-> S, err |-> err, ret |-> NoId]


(***************************************************************************)
(* The store's statements.  D is the view of the tables the statement      *)
(* runs on, S the id sequences.                                            *)
(***************************************************************************)

\* The characters of the subdomains in use.
SubdomainText ==
    ("t1" :> <<"t", "1">>)
    @@ ("t2" :> <<"t", "2">>)
    @@ ("test-co" :> <<"t", "e", "s", "t", "-", "c", "o">>)
    @@ ("Test-Co" :> <<"T", "e", "s", "t", "-", "C", "o">>)

\* Tenant.subdomain's RegexValidator: ^[a-z0-9](?:[a-z0-9-]{0,61}[a-z0-9])?$
RegexValidator(text) ==
    LET alnum == {"a", "b", "c", "d", "e", "f", "g", "h", "i", "j", "k", "l", "m",
                  "n", "o", "p", "q", "r", "s", "t", "u", "v", "w", "x", "y", "z",
                  "0", "1", "2", "3", "4", "5", "6", "7", "8", "9"}
    IN  /\ Len(text) >= 1
        /\ text[1] \in alnum
        /\ \/ Len(text) = 1
           \/ /\ Len(text) - 2 <= 61
              /\ \A i \in 2..(Len(text) - 1) : text[i] \in alnum \cup {"-"}
              /\ text[Len(text)] \in alnum

\* Tenant.objects.create(**tenant_data): subdomain is unique.
TenantInsert(D, S, tenant_data) ==
    IF \E t \in D.tenants : t.subdomain = tenant_data.subdomain
    THEN Raise(D, S, "IntegrityError")
    ELSE Ok([D EXCEPT !.tenants = @ \cup
                {[id |-> S.tenant, subdomain |-> tenant_data.subdomain,
                  is_active |-> TRUE, settings |-> [k \in {} |-> ""]]}],
            [S EXCEPT !.tenant = @ + 1], S.tenant)

\* User.Meta.unique_together: (tenant, username) and (tenant, email), checked
\* against every row but the one being written.
UserUniqueViolation(D, obj) ==
    \E u \in D.users :
        /\ u.id # obj.id
        /\ u.tenant_id = obj.tenant_id
        /\ (u.username = obj.username \/ u.email = obj.email)

\* Model.save() of a User: an UPDATE of the row whose primary key the object
\* carries, an INSERT when there is no such row.
UserSave(D, S, obj) ==
    IF obj.username = NULL \/ obj.email = NULL \/ UserUniqueViolation(D, obj)
    THEN Raise(D, S, "IntegrityError")
    ELSE Ok([D EXCEPT !.users = {u \in @ : u.id # obj.id} \cup {obj}], S, obj.id)

\* User.objects.create(**user_data): the password column starts empty, the
\* flags take the defaults of AbstractUser unless the data sets them.
UserInsert(D, S, user_data, tenant_id, is_staff) ==
    LET obj == [id |-> S.user, tenant_id |-> tenant_id,
                username |-> user_data.username, email |-> user_data.email,
                password |-> UnsetPassword, is_staff |-> is_staff,
                is_active |-> TRUE]
        res == UserSave(D, S, obj)
    IN  IF res.ok THEN [res EXCEPT !.seq = [S EXCEPT !.user = @ + 1]] ELSE res

\* user.set_password(password); user.save()
SetPasswordAndSave(D, S, user_id, password) ==
    UserSave(D, S, [Row(D.users, user_id) EXCEPT !.password = make_password(password)])

\* update_or_create in the place of get_or_create: the defaults overwrite
\* the description and the permissions of a role that exists.
RoleUpdateOrCreate(D, S, name, tenant_id, description) ==
    LET found == {r \in D.roles : r.name = name /\ r.tenant_id = tenant_id}
        fresh == [id |-> S.role, tenant_id |-> tenant_id, name |-> name,
                  description |-> description,
                  permissions |-> DefaultPermissions(name),
                  is_system_role |-> TRUE]
    IN  IF found # {}
        THEN Ok([D EXCEPT !.roles = (@ \ found) \cup
                    {[fresh EXCEPT !.id = r.id] : r \in found}],
                S, (CHOOSE r \in found : TRUE).id)
        ELSE Ok([D EXCEPT !.roles = @ \cup {fresh}],
                [S EXCEPT !.role = @ + 1], S.role)

\* Role.objects.get_or_create(name=, tenant=, defaults=): (tenant, name) is unique.
RoleGetOrCreate(D, S, name, tenant_id, description) ==
    LET found == {r \in D.roles : r.name = name /\ r.tenant_id = tenant_id}
    IN  IF found # {}
        THEN Ok(D, S, (CHOOSE r \in found : TRUE).id)
        ELSE Ok([D EXCEPT !.roles = @ \cup
                    {[id |-> S.role, tenant_id |-> tenant_id, name |-> name,
                      description |-> description,
                      permissions |-> DefaultPermissions(name),
                      is_system_role |-> TRUE]}],
                [S EXCEPT !.role = @ + 1], S.role)

\* UserRole._validate_tenant_consistency: the message of the first mismatch,
\* the empty string when there is none.
ValidateTenantConsistency(D, user_id, role_id, tenant_id, assigned_by) ==
    IF Row(D.users, user_id).tenant_id # tenant_id
    THEN "User must belong to the same tenant"
    ELSE IF Row(D.roles, role_id).tenant_id # tenant_id
    THEN "Role must belong to the same tenant"
    ELSE IF assigned_by # NoId /\ Row(D.users, assigned_by).tenant_id # tenant_id
    THEN "Assigner must belong to the same tenant"
    ELSE ""

\* A UserRole table without its uniqueness constraint.
UserRoleUniqueViolationOff(D, user_id, role_id, tenant_id) == FALSE

\* UserRole.Meta.unique_together: (user, role, tenant).
UserRoleUniqueViolation(D, user_id, role_id, tenant_id) ==
    \E x \in D.user_roles :
        x.user_id = user_id /\ x.role_id = role_id /\ x.tenant_id = tenant_id

\* UserRole.objects.create(...): UserRole.save validates, then inserts.
UserRoleCreate(D, S, user_id, role_id, tenant_id, assigned_by) ==
    LET err == ValidateTenantConsistency(D, user_id, role_id, tenant_id, assigned_by)
    IN  IF err # ""
        THEN Raise(D, S, err)
        ELSE IF UserRoleUniqueViolation(D, user_id, role_id, tenant_id)
        THEN Raise(D, S, "IntegrityError")
        ELSE Ok([D EXCEPT !.user_roles = @ \cup
                    {[id |-> S.user_role, user_id |-> user_id, role_id |-> role_id,
                      tenant_id |-> tenant_id, assigned_by |-> assigned_by]}],
                [S EXCEPT !.user_role = @ + 1], S.user_role)

\* A call whose writes are not undone when it raises.
TransactionNone(before, res) == res

\* @transaction.atomic: the writes of a call that raises are rolled back.
\* The id sequences are not transactional.
TransactionAtomic(before, res) ==
    IF res.ok THEN res ELSE [res EXCEPT !.db = before]

(***************************************************************************)
(* RoleService (modules/users/services.py).                                *)
(***************************************************************************)

\* The tenant checks of assign_role with the role checked before the user.
AssignRoleValidationRoleFirst(D, user_id, role_id, tenant_id, assigned_by) ==
    IF Row(D.roles, role_id).tenant_id # tenant_id
    THEN "Role must belong to the same tenant"
    ELSE IF Row(D.users, user_id).tenant_id # tenant_id
    THEN "User must belong to the same tenant"
    ELSE IF assigned_by # NoId /\ Row(D.users, assigned_by).tenant_id # tenant_id
    THEN "Assigner must belong to the same tenant"
    ELSE ""

\* RoleService.assign_role, the three tenant checks: the message of the
\* first one that fails, the empty string when all pass.
AssignRoleValidation(D, user_id, role_id, tenant_id, assigned_by) ==
    IF Row(D.users, user_id).tenant_id # tenant_id
    THEN "User must belong to the same tenant"
    ELSE IF Row(D.roles, role_id).tenant_id # tenant_id
    THEN "Role must belong to the same tenant"
    ELSE IF assigned_by # NoId /\ Row(D.users, assigned_by).tenant_id # tenant_id
    THEN "Assigner must belong to the same tenant"
    ELSE ""

\* UserRole.objects.filter(user=, role=, tenant=)
AssignmentsOf(D, user_id, role_id, tenant_id) ==
    {x \in D.user_roles :
        x.user_id = user_id /\ x.role_id = role_id /\ x.tenant_id = tenant_id}

\* queryset.first(): the row of least primary key, NoId for an empty queryset.
FirstId(rows) ==
    IF rows = {} THEN NoId
    ELSE (CHOOSE x \in rows : \A y \in rows : x.id <= y.id).id

\* assign_role without its existence check.
ExistingAssignmentSkipped(D, user_id, role_id, tenant_id) == NoId

\* RoleService.assign_role, the existence check.
ExistingAssignment(D, user_id, role_id, tenant_id) ==
    FirstId(AssignmentsOf(D, user_id, role_id, tenant_id))

\* RoleService.assign_role, run without interruption.
assign_role(D, S, user_id, role_id, tenant_id, assigned_by) ==
    LET err == AssignRoleValidation(D, user_id, role_id, tenant_id, assigned_by)
        existing == ExistingAssignment(D, user_id, role_id, tenant_id)
    IN  TransactionAtomic(D,
            IF err # "" THEN Raise(D, S, err)
            ELSE IF existing # NoId THEN Ok(D, S, existing)
            ELSE UserRoleCreate(D, S, user_id, role_id, tenant_id, assigned_by))

\* remove_role reporting the count and leaving the rows where they are.
remove_role_keeps_rows(D, S, user_id, role_id, tenant_id) ==
    Ok(D, S, Cardinality(AssignmentsOf(D, user_id, role_id, tenant_id)))

\* remove_role filtering by user and tenant only.
remove_role_any_role(D, S, user_id, role_id, tenant_id) ==
    LET gone == {x \in D.user_roles : x.user_id = user_id /\ x.tenant_id = tenant_id}
    IN  Ok([D EXCEPT !.user_roles = @ \ gone], S,
           Cardinality(AssignmentsOf(D, user_id, role_id, tenant_id)))

\* RoleService.remove_role: the result is the number of rows deleted.
remove_role(D, S, user_id, role_id, tenant_id) ==
    LET gone == AssignmentsOf(D, user_id, role_id, tenant_id)
    IN  Ok([D EXCEPT !.user_roles = @ \ gone], S, Cardinality(gone))

\* RoleService.get_user_roles
get_user_roles(D, user_id, tenant_id) ==
    {x \in D.user_roles : x.user_id = user_id /\ x.tenant_id = tenant_id}

\* has_permission with the tenant left out of the UserRole filter.
has_permission_any_tenant(D, user_id, permission_name, tenant_id) ==
    \E x \in D.user_roles :
        x.user_id = user_id /\ permission_name \in Row(D.roles, x.role_id).permissions

\* RoleService.has_permission
has_permission(D, user_id, permission_name, tenant_id) ==
    \E x \in get_user_roles(D, user_id, tenant_id) :
        permission_name \in Row(D.roles, x.role_id).permissions

\* RoleService.get_users_with_role
get_users_with_role(D, role_id, tenant_id) ==
    LET user_ids == {x.user_id : x \in {y \in D.user_roles :
                        y.role_id = role_id /\ y.tenant_id = tenant_id}}
    IN  {u \in D.users : u.id \in user_ids /\ u.tenant_id = tenant_id}

(***************************************************************************)
(* UserService.                                                            *)
(***************************************************************************)

\* Python truthiness of an optional string.
Truthy(str) == str # NULL /\ str # ""

\* Role.objects.filter(tenant=tenant, name=Role.STUDENT).first()
StudentRole(D, tenant_id) ==
    FirstId({r \in D.roles : r.tenant_id = tenant_id /\ r.name = STUDENT})

\* create_user without @transaction.atomic: what it wrote before it raised stays.
create_user_not_atomic(D, S, user_data, tenant_id, assign_default_role, fault) ==
    LET r1 == IF fault = "user" THEN Raise(D, S, "DatabaseError")
              ELSE UserInsert(D, S, user_data, tenant_id, FALSE)
        r2 == IF r1.ok /\ Truthy(user_data.password)
              THEN IF fault = "password" THEN Raise(r1.db, r1.seq, "DatabaseError")
                   ELSE SetPasswordAndSave(r1.db, r1.seq, r1.ret, user_data.password)
              ELSE r1
        student_role == StudentRole(r2.db, tenant_id)
        r3 == IF r2.ok /\ assign_default_role /\ student_role # NoId
              THEN IF fault = "grant" THEN Raise(r2.db, r2.seq, "DatabaseError")
                   ELSE UserRoleCreate(r2.db, r2.seq, r1.ret, student_role, tenant_id, NoId)
              ELSE r2
    IN  IF r3.ok THEN Ok(r3.db, r3.seq, r1.ret) ELSE r3

\* create_user granting the student role whatever assign_default_role says.
create_user_always_grants(D, S, user_data, tenant_id, assign_default_role, fault) ==
    TransactionAtomic(D, create_user_not_atomic(D, S, user_data, tenant_id, TRUE, fault))

\* UserService.create_user, with the store failing at statement fault
\* ("none": at no statement).
create_user_under(D, S, user_data, tenant_id, assign_default_role, fault) ==
    LET r1 == IF fault = "user" THEN Raise(D, S, "DatabaseError")
              ELSE UserInsert(D, S, user_data, tenant_id, FALSE)
        r2 == IF r1.ok /\ Truthy(user_data.password)
              THEN IF fault = "password" THEN Raise(r1.db, r1.seq, "DatabaseError")
                   ELSE SetPasswordAndSave(r1.db, r1.seq, r1.ret, user_data.password)
              ELSE r1
        student_role == StudentRole(r2.db, tenant_id)
        r3 == IF r2.ok /\ assign_default_role /\ student_role # NoId
              THEN IF fault = "grant" THEN Raise(r2.db, r2.seq, "DatabaseError")
                   ELSE UserRoleCreate(r2.db, r2.seq, r1.ret, student_role, tenant_id, NoId)
              ELSE r2
    IN  TransactionAtomic(D, IF r3.ok THEN Ok(r3.db, r3.seq, r1.ret) ELSE r3)

\* UserService.create_user
create_user(D, S, user_data, tenant_id, assign_default_role) ==
    create_user_under(D, S, user_data, tenant_id, assign_default_role, "none")

\* change_password storing the new password whatever the old one given.
change_password_unchecked(D, S, user_id, old_password, new_password) ==
    SetPasswordAndSave(D, S, user_id, new_password)

\* UserService.change_password
change_password(D, S, user_id, old_password, new_password) ==
    IF ~check_password(old_password, Row(D.users, user_id).password)
    THEN Raise(D, S, "Old password is incorrect")
    ELSE SetPasswordAndSave(D, S, user_id, new_password)

\* UserService.update_user, the three pops.
StripProtected(update_data) ==
    [k \in DOMAIN update_data \ {"tenant", "tenant_id", "password"} |-> update_data[k]]

\* setattr(user, field, value) for the fields the object has.  "tenant" sets
\* the tenant foreign key, "password" stores its value as it is (unhashed),
\* "id" (or its alias "pk") makes the object name another row.
SetAttrs(obj, data) ==
    [f \in DOMAIN obj |->
        CASE f = "tenant_id" /\ "tenant" \in DOMAIN data -> data["tenant"]
          [] f = "password" /\ "password" \in DOMAIN data -> <<"raw", data["password"]>>
          [] f \in DOMAIN data -> data[f]
          [] OTHER -> obj[f]]

\* UserService.update_user
update_user(D, S, user_id, update_data) ==
    UserSave(D, S, SetAttrs(Row(D.users, user_id), StripProtected(update_data)))

\* UserService.deactivate_user
deactivate_user(D, S, user_id) ==
    UserSave(D, S, [Row(D.users, user_id) EXCEPT !.is_active = FALSE])

\* UserService.get_users_by_tenant
get_users_by_tenant(D, tenant_id) ==
    {u \in D.users : u.tenant_id = tenant_id}

(***************************************************************************)
(* TenantService.                                                          *)
(***************************************************************************)

\* The descriptions of the default_roles table of _create_default_roles.
ServiceDescription(name) ==
    CASE name = ADMIN -> "Full access to tenant resources"
      [] name = INSTRUCTOR -> "Create and manage courses"
      [] OTHER -> "Enroll in courses"

\* Default roles without the student role.
create_default_roles_no_student(D, S, tenant_id) ==
    LET r1 == RoleGetOrCreate(D, S, ADMIN, tenant_id, "Full access to tenant resources")
        r2 == RoleGetOrCreate(r1.db, r1.seq, INSTRUCTOR, tenant_id,
                              "Create and manage courses")
    IN  Ok(r2.db, r2.seq, r1.ret)

\* TenantService._create_default_roles: the result is the id of created_roles["admin"].
create_default_roles(D, S, tenant_id) ==
    LET r1 == RoleGetOrCreate(D, S, ADMIN, tenant_id, ServiceDescription(ADMIN))
        r2 == RoleGetOrCreate(r1.db, r1.seq, INSTRUCTOR, tenant_id,
                              ServiceDescription(INSTRUCTOR))
        r3 == RoleGetOrCreate(r2.db, r2.seq, STUDENT, tenant_id,
                              ServiceDescription(STUDENT))
    IN  Ok(r3.db, r3.seq, r1.ret)

\* The statements of TenantService.create_tenant_with_admin, in order.
CtSteps == <<"tenant", "roles", "user", "password", "grant">>

\* One statement of create_tenant_with_admin.  c holds the call's arguments
\* and locals: tenant_data, admin_user_data, fault, tenant, admin_user,
\* admin_role.  The result's ret is the id the statement produced.
CtStatement(step, D, S, c) ==
    IF c.fault = step THEN Raise(D, S, "DatabaseError")
    ELSE CASE step = "tenant" -> TenantInsert(D, S, c.tenant_data)
           [] step = "roles" -> create_default_roles(D, S, c.tenant)
           [] step = "user" -> UserInsert(D, S, c.admin_user_data, c.tenant, TRUE)
           [] step = "password" ->
                IF Truthy(c.admin_user_data.password)
                THEN SetPasswordAndSave(D, S, c.admin_user, c.admin_user_data.password)
                ELSE Ok(D, S, c.admin_user)
           [] OTHER ->
                IF c.admin_role # NoId
                THEN UserRoleCreate(D, S, c.admin_user, c.admin_role, c.tenant, NoId)
                ELSE Ok(D, S, NoId)

\* The locals a statement of create_tenant_with_admin binds.
CtBind(step, c, ret) ==
    CASE step = "tenant" -> [c EXCEPT !.tenant = ret]
      [] step = "roles" -> [c EXCEPT !.admin_role = ret]
      [] step = "user" -> [c EXCEPT !.admin_user = ret]
      [] OTHER -> c

\* The statements from the i-th on, run one after the other until one raises.
\* The outcome carries the locals in field c.
RECURSIVE CtRun(_, _, _, _)
CtRun(i, D, S, c) ==
    IF i > Len(CtSteps)
    THEN [ok |-> TRUE, db |-> D, seq |-> S, err |-> "", ret |-> c.tenant, c |-> c]
    ELSE LET res == CtStatement(CtSteps[i], D, S, c)
         IN  IF res.ok
             THEN CtRun(i + 1, res.db, res.seq, CtBind(CtSteps[i], c, res.ret))
             ELSE [ok |-> FALSE, db |-> res.db, seq |-> res.seq, err |-> res.err,
                   ret |-> NoId, c |-> c]

CtCall(tenant_data, admin_user_data, fault) ==
    [tenant_data |-> tenant_data, admin_user_data |-> admin_user_data,
     fault |-> fault, tenant |-> NoId, admin_user |-> NoId, admin_role |-> NoId]

\* TenantService.create_tenant_with_admin, run without interruption.
create_tenant_with_admin(D, S, tenant_data, admin_user_data, fault) ==
    TransactionAtomic(D, CtRun(1, D, S, CtCall(tenant_data, admin_user_data, fault)))

\* The descriptions of Command.DEFAULT_ROLES.
CommandDescription(name) ==
    CASE name = ADMIN -> "Full access to tenant resources and user management"
      [] name = INSTRUCTOR ->
            "Create and manage courses, assessments, and grade students"
      [] OTHER -> "Enroll in courses and submit assessments"

\* Command._seed_roles_for_tenant: the result is created_count.
seed_roles_for_tenant(D, S, tenant_id) ==
    LET r1 == RoleGetOrCreate(D, S, ADMIN, tenant_id, CommandDescription(ADMIN))
        r2 == RoleGetOrCreate(r1.db, r1.seq, INSTRUCTOR, tenant_id,
                              CommandDescription(INSTRUCTOR))
        r3 == RoleGetOrCreate(r2.db, r2.seq, STUDENT, tenant_id,
                              CommandDescription(STUDENT))
    IN  Ok(r3.db, r3.seq, r3.seq.role - S.role)

\* update_tenant_settings putting settings_data in the place of the settings.
update_tenant_settings_replaces(D, S, tenant_id, settings_data) ==
    LET tenant == Row(D.tenants, tenant_id)
    IN  Ok([D EXCEPT !.tenants =
                (@ \ {tenant}) \cup {[tenant EXCEPT !.settings = settings_data]}],
           S, tenant_id)

\* TenantService.update_tenant_settings: dict.update, then tenant.save().
update_tenant_settings(D, S, tenant_id, settings_data) ==
    LET tenant == Row(D.tenants, tenant_id)
        current_settings == tenant.settings
        updated == [k \in DOMAIN current_settings \cup DOMAIN settings_data |->
                        IF k \in DOMAIN settings_data THEN settings_data[k]
                        ELSE current_settings[k]]
    IN  Ok([D EXCEPT !.tenants =
                (@ \ {tenant}) \cup {[tenant EXCEPT !.settings = updated]}],
           S, tenant_id)

(***************************************************************************)
(* State.                                                                  *)
(***************************************************************************)

\* The record kept of the last call: which operation, whether it returned
\* or raised, the error's message, and the id (or the count) it returned.
CallRecord(op, res) ==
    [op |-> op, ok |-> res.ok, err |-> res.err, ret |-> res.ret]

NoCall == [op |-> "none", ok |-> TRUE, err |-> "", ret |-> NoId]

\* What a worker holds of its open call: the statement create_tenant_with_admin
\* is at and its locals, or the arguments of assign_role.
Idle ==
    [i |-> 0,
     c |-> CtCall([subdomain |-> ""], [username |-> "", email |-> "", password |-> ""],
                  "none"),
     user_id |-> NoId, role_id |-> NoId, tenant_id |-> NoId, assigned_by |-> NoId]

Init ==
    /\ db = EmptyTables
    /\ seq = InitSeq
    /\ last = NoCall
    /\ pc = [w \in Workers |-> "idle"]
    /\ call = [w \in Workers |-> Idle]
    /\ pend = [w \in Workers |-> EmptyTables]

TenantIds == {t.id : t \in db.tenants}

UserIds == {u.id : u \in db.users}

RoleIds == {r.id : r \in db.roles}

\* No worker has a call open: the calls of the sequential actions below run
\* one at a time, each in its own transaction.
Quiet == \A w \in Workers : pc[w] = "idle"

\* The id sequences stay within the bounds of the model: a call that would
\* take an id beyond them is not made.
InBounds(S) ==
    /\ S.tenant <= MaxTenants + 1
    /\ S.user <= MaxUsers + 1
    /\ S.user_role <= MaxUserRoles + 1

Commit(res, rec) ==
    /\ InBounds(res.seq)
    /\ db' = res.db
    /\ seq' = res.seq
    /\ last' = rec
    /\ UNCHANGED <<pc, call, pend>>

(***************************************************************************)
(* The inputs of the calls.                                                *)
(***************************************************************************)
TenantData == {[subdomain |-> s] : s \in Subdomains}

\* The data of a tenant's first administrator and of a later user.
AdminUserData == [username |-> "a", email |-> "a@x", password |-> "p1"]

MemberUserData == [username |-> "b", email |-> "b@x", password |-> "p1"]

\* User data of every shape: a missing username, any email, any password.
AnyUserData ==
    {[username |-> n, email |-> e, password |-> p] :
        n \in Names \cup {NULL}, e \in Emails, p \in Passwords \cup {NULL}}

\* The statements of create_user a store failure can hit, or none.
UserFaults == {"none", "user", "password", "grant"}

\* The passwords a caller of change_password gives, the empty one included.
AnyPasswords == Passwords \cup {""}

Faults == {"none"} \cup {CtSteps[i] : i \in 1..Len(CtSteps)}

\* The patches given to update_user: one that names the three protected
\* keys, a plain attribute and a key the object does not have; and one that
\* names the primary key of a stored user, with a username and an email.
Patches ==
    {[tenant |-> t, tenant_id |-> t, password |-> "p2", is_staff |-> TRUE,
      nickname |-> "x"] : t \in TenantIds}
    \cup {[id |-> u, username |-> "b", email |-> "b@x"] : u \in UserIds}

InstructorRoleIds == {r.id : r \in {x \in db.roles : x.name = INSTRUCTOR}}

(***************************************************************************)
(* The services, each call run in one piece.                               *)
(***************************************************************************)
CreateTenantWithAdmin(tenant_data, admin_user_data, fault) ==
    /\ Quiet
    /\ LET res == create_tenant_with_admin(db, seq, tenant_data, admin_user_data, fault)
       IN  Commit(res, CallRecord("create_tenant_with_admin", res))

CreateUser(user_data, tenant_id, assign_default_role, fault) ==
    /\ Quiet
    /\ LET res == create_user_under(db, seq, user_data, tenant_id,
                                    assign_default_role, fault)
       IN  Commit(res, CallRecord("create_user", res))

ChangePassword(user_id, old_password, new_password) ==
    /\ Quiet
    /\ LET res == change_password(db, seq, user_id, old_password, new_password)
       IN  Commit(res, CallRecord("change_password", res))

UpdateUser(user_id, update_data) ==
    /\ Quiet
    /\ LET res == update_user(db, seq, user_id, update_data)
       IN  Commit(res, CallRecord("update_user", res))

AssignRole(user_id, role_id, tenant_id, assigned_by) ==
    /\ Quiet
    /\ LET res == assign_role(db, seq, user_id, role_id, tenant_id, assigned_by)
       IN  Commit(res, CallRecord("assign_role", res))

RemoveRole(user_id, role_id, tenant_id) ==
    /\ Quiet
    /\ LET res == remove_role(db, seq, user_id, role_id, tenant_id)
       IN  Commit(res, CallRecord("remove_role", res))

SeedRolesForTenant(tenant_id) ==
    /\ Quiet
    /\ LET res == seed_roles_for_tenant(db, seq, tenant_id)
       IN  Commit(res, CallRecord("seed_default_roles", res))

UpdateTenantSettings(tenant_id, settings_data) ==
    /\ Quiet
    /\ LET res == update_tenant_settings(db, seq, tenant_id, settings_data)
       IN  Commit(res, CallRecord("update_tenant_settings", res))

\* role.permissions = permissions; role.save(): a role customized.
RoleSave(role_id, permissions) ==
    /\ Quiet
    /\ LET res == Ok([db EXCEPT !.roles =
                        {IF r.id = role_id THEN [r EXCEPT !.permissions = permissions]
                         ELSE r : r \in @}], seq, role_id)
       IN  Commit(res, CallRecord("role_save", res))

\* TenantViewSet.create (open to anyone): TenantSerializer runs the
\* subdomain field's validators and its uniqueness check and inserts the
\* tenant, without roles or users.
TenantCreate(tenant_data) ==
    /\ Quiet
    /\ LET res == IF ~RegexValidator(SubdomainText[tenant_data.subdomain])
                  THEN Raise(db, seq, "ValidationError")
                  ELSE TenantInsert(db, seq, tenant_data)
       IN  Commit(res, CallRecord("tenant_create", res))

(***************************************************************************)
(* Spec: any sequence of service calls.                                    *)
(***************************************************************************)
Next ==
    \/ \E td \in TenantData : CreateTenantWithAdmin(td, AdminUserData, "none")
    \/ \E td \in TenantData : TenantCreate(td)
    \/ \E t \in TenantIds, flag \in BOOLEAN : CreateUser(MemberUserData, t, flag, "none")
    \/ \E u \in UserIds, patch \in Patches : UpdateUser(u, patch)
    \/ \E u \in UserIds, r \in InstructorRoleIds, t \in TenantIds,
            by \in UserIds \cup {NoId} : AssignRole(u, r, t, by)
    \/ \E u \in UserIds, r \in InstructorRoleIds, t \in TenantIds : RemoveRole(u, r, t)
    \/ \E t \in TenantIds : SeedRolesForTenant(t)

Spec == Init /\ [][Next]_vars

(***************************************************************************)
(* C1.  Every stored UserRole row is tenant-consistent: its user and its   *)
(* role belong to its tenant, and its assigner, when there is one, does    *)
(* too.                                                                    *)
(***************************************************************************)
TenantOfUser(D, user_id) == Row(D.users, user_id).tenant_id

UserRoleConsistent(D, x) ==
    /\ HasRow(D.users, x.user_id) /\ TenantOfUser(D, x.user_id) = x.tenant_id
    /\ HasRow(D.roles, x.role_id) /\ Row(D.roles, x.role_id).tenant_id = x.tenant_id
    /\ x.assigned_by # NoId =>
            /\ HasRow(D.users, x.assigned_by)
            /\ TenantOfUser(D, x.assigned_by) = x.tenant_id

C1_UserRolesTenantConsistent ==
    \A x \in db.user_roles : UserRoleConsistent(db, x)

(***************************************************************************)
(* C3.  assign_role fails with a tenant-consistency error and writes       *)
(* nothing whenever the user, the role or the (present) assigner is not of *)
(* the tenant; the error names the mismatching party, the user before the  *)
(* role and the role before the assigner.                                  *)
(***************************************************************************)
UserMismatch(D, user_id, tenant_id) == TenantOfUser(D, user_id) # tenant_id

RoleMismatch(D, role_id, tenant_id) == Row(D.roles, role_id).tenant_id # tenant_id

AssignerMismatch(D, assigned_by, tenant_id) ==
    assigned_by # NoId /\ TenantOfUser(D, assigned_by) # tenant_id

C3_AssignRoleRejectsMismatch ==
    \A u \in UserIds, r \in RoleIds, t \in TenantIds, by \in UserIds \cup {NoId} :
        LET res == assign_role(db, seq, u, r, t, by)
        IN  (UserMismatch(db, u, t) \/ RoleMismatch(db, r, t) \/ AssignerMismatch(db, by, t))
            => /\ ~res.ok
               /\ res.db = db
               /\ res.err = IF UserMismatch(db, u, t)
                                THEN "User must belong to the same tenant"
                            ELSE IF RoleMismatch(db, r, t)
                                THEN "Role must belong to the same tenant"
                            ELSE "Assigner must belong to the same tenant"

\* A call of assign_role has just failed on the user although a role of
\* another tenant than the user's exists as well.
C3_Witness ==
    /\ last.op = "assign_role"
    /\ ~last.ok
    /\ last.err = "User must belong to the same tenant"
    /\ \E u \in db.users, r \in db.roles : u.tenant_id # r.tenant_id

(***************************************************************************)
(* C4.  assign_role is idempotent for sequential calls.  As stated: for a  *)
(* tenant-consistent (user, role, tenant) and any two assigned_by values,  *)
(* two calls in a row return the same assignment id and leave exactly one  *)
(* row for the triple, whose assigned_by is the one the first call left.   *)
(***************************************************************************)
TwiceIdempotent(u, r, t, by1, by2) ==
    LET first == assign_role(db, seq, u, r, t, by1)
        second == assign_role(first.db, first.seq, u, r, t, by2)
    IN  /\ first.ok
        /\ second.ok
        /\ second.ret = first.ret
        /\ Cardinality(AssignmentsOf(second.db, u, r, t)) = 1
        /\ Row(second.db.user_roles, first.ret).assigned_by
              = Row(first.db.user_roles, first.ret).assigned_by

ConsistentTriples ==
    {<<u, r, t>> \in UserIds \X RoleIds \X TenantIds :
        ~UserMismatch(db, u, t) /\ ~RoleMismatch(db, r, t)}

C4_IdempotentAnyAssigner ==
    \A x \in ConsistentTriples, by1 \in UserIds \cup {NoId}, by2 \in UserIds \cup {NoId} :
        TwiceIdempotent(x[1], x[2], x[3], by1, by2)

\* C4 as amended: the same, for assigned_by values that are absent or users
\* of the tenant.
C4_IdempotentConsistentAssigner ==
    \A x \in ConsistentTriples, by1 \in UserIds \cup {NoId}, by2 \in UserIds \cup {NoId} :
        (~AssignerMismatch(db, by1, x[3]) /\ ~AssignerMismatch(db, by2, x[3]))
            => TwiceIdempotent(x[1], x[2], x[3], by1, by2)

\* A call of assign_role has just returned an assignment that an earlier call
\* made (a later id has been handed out since), in a tenant with two users.
C4_Witness ==
    /\ last.op = "assign_role"
    /\ last.ok
    /\ \E x \in db.user_roles :
        /\ x.id = last.ret
        /\ x.id + 1 < seq.user_role
        /\ Cardinality(AssignmentsOf(db, x.user_id, x.role_id, x.tenant_id)) = 1
        /\ \E v \in db.users : v.id # x.user_id /\ v.tenant_id = x.tenant_id

(***************************************************************************)
(* The endpoints.  A request carries request.user (NoId when anonymous)    *)
(* and request.tenant (NoId when the middleware attached none).  A         *)
(* response carries the status, the records it returns and the tables      *)
(* after the call.                                                         *)
(***************************************************************************)
Request(user, tenant) == [user |-> user, tenant |-> tenant]

NoRecords == [tenants |-> {}, users |-> {}, roles |-> {}, user_roles |-> {}]

Response(status, D, S, ret, records) ==
    [ok |-> status < 400, status |-> status, db |-> D, seq |-> S,
     err |-> IF status < 400 THEN "" ELSE "rejected", ret |-> ret,
     records |-> records]

Denied(D, S) == Response(403, D, S, NoId, NoRecords)

NotFound(D, S) == Response(404, D, S, NoId, NoRecords)

BadRequest(D, S) == Response(400, D, S, NoId, NoRecords)

\* An exception no view catches.
ServerError(D, S) == Response(500, D, S, NoId, NoRecords)

\* rest_framework.permissions.IsAuthenticated
IsAuthenticated(D, request) ==
    request.user # NoId /\ HasRow(D.users, request.user)

\* IsTenantMember without the comparison of the two tenants.
IsTenantMember_any_tenant(D, request) ==
    /\ IsAuthenticated(D, request)
    /\ request.tenant # NoId

\* permissions.IsTenantMember
IsTenantMember(D, request) ==
    /\ IsAuthenticated(D, request)
    /\ request.tenant # NoId
    /\ Row(D.users, request.user).tenant_id = request.tenant

\* UserRole.objects.filter(user=request.user, tenant=tenant) joined with role.
RolesHeld(D, request) ==
    {Row(D.roles, x.role_id) :
        x \in {y \in D.user_roles :
                y.user_id = request.user /\ y.tenant_id = request.tenant}}

\* IsAdminRole with the tenant left out of the UserRole filter.
IsAdminRole_any_tenant(D, request) ==
    /\ IsAuthenticated(D, request)
    /\ request.tenant # NoId
    /\ \E x \in D.user_roles :
            x.user_id = request.user /\ Row(D.roles, x.role_id).name = ADMIN

\* permissions.IsAdminRole
IsAdminRole(D, request) ==
    /\ IsAuthenticated(D, request)
    /\ request.tenant # NoId
    /\ \E r \in RolesHeld(D, request) : r.name = ADMIN

\* permissions.IsInstructorOrAdmin
IsInstructorOrAdmin(D, request) ==
    /\ IsAuthenticated(D, request)
    /\ request.tenant # NoId
    /\ \E r \in RolesHeld(D, request) : r.name \in {ADMIN, INSTRUCTOR}

\* IsOwnerOrAdmin looking for the tenant before it looks at the owner.
has_object_permission_tenant_first(D, request, obj) ==
    /\ IsAuthenticated(D, request)
    /\ request.tenant # NoId
    /\ \/ (IF "user_id" \in DOMAIN obj THEN obj.user_id ELSE obj.id) = request.user
       \/ \E r \in RolesHeld(D, request) : r.name = ADMIN

\* IsOwnerOrAdmin.has_object_permission: obj.user.id when the object has a
\* user, obj.id otherwise.
has_object_permission(D, request, obj) ==
    /\ IsAuthenticated(D, request)
    /\ \/ (IF "user_id" \in DOMAIN obj THEN obj.user_id ELSE obj.id) = request.user
       \/ /\ request.tenant # NoId
          /\ \E r \in RolesHeld(D, request) : r.name = ADMIN

\* permissions.IsOwnerOrAdmin, on a User object.
IsOwnerOrAdmin(D, request, obj_id) ==
    has_object_permission(D, request, [id |-> obj_id])

\* permissions.CanManageUsers
CanManageUsers(D, request) ==
    /\ IsAuthenticated(D, request)
    /\ request.tenant # NoId
    /\ \E r \in RolesHeld(D, request) : "manage_users" \in r.permissions

\* permissions.CanManageRoles
CanManageRoles(D, request) ==
    /\ IsAuthenticated(D, request)
    /\ request.tenant # NoId
    /\ \E r \in RolesHeld(D, request) : "manage_roles" \in r.permissions

\* UserViewSet.get_queryset
UserQueryset(D, request) ==
    IF request.tenant = NoId THEN {}
    ELSE {u \in D.users : u.tenant_id = request.tenant}

\* obj.user_roles, the rows the nested UserRoleSerializer writes out.
NestedUserRoles(D, user_id) == {x \in D.user_roles : x.user_id = user_id}

\* UserProfileSerializer / UserSerializer of a user: the user, its tenant
\* (tenant_name) and its nested user_roles.
UserRecords(D, user_id) ==
    [NoRecords EXCEPT !.users = {Row(D.users, user_id)},
                      !.user_roles = NestedUserRoles(D, user_id)]

\* UserViewSet.list
UserViewSet_list(D, S, request) ==
    IF ~IsTenantMember(D, request) THEN Denied(D, S)
    ELSE Response(200, D, S, NoId,
                  [NoRecords EXCEPT !.users = UserQueryset(D, request)])

\* UserViewSet.retrieve
UserViewSet_retrieve(D, S, request, pk) ==
    IF ~IsTenantMember(D, request) THEN Denied(D, S)
    ELSE IF ~HasRow(UserQueryset(D, request), pk) THEN NotFound(D, S)
    ELSE Response(200, D, S, pk, UserRecords(D, pk))

\* UserCreateSerializer: the username field of the ModelSerializer carries
\* the UniqueValidator of User.username (AbstractUser declares it unique and
\* the model does not redeclare it), over the users of every tenant; then
\* validate: the email, then the username, must be new in request.tenant.
UserCreateInvalid(D, request, data) ==
    \/ ~Truthy(data.username) \/ ~Truthy(data.email) \/ ~Truthy(data.password)
    \/ \E u \in D.users : u.username = data.username
    \/ \E u \in D.users : u.tenant_id = request.tenant /\ u.email = data.email
    \/ \E u \in D.users : u.tenant_id = request.tenant /\ u.username = data.username

\* UserViewSet.create: UserCreateSerializer.create, then perform_create
\* grants the student role.  Nothing is rolled back when a step raises.
UserViewSet_create(D, S, request, data) ==
    IF ~(IsTenantMember(D, request) /\ CanManageUsers(D, request)) THEN Denied(D, S)
    ELSE IF UserCreateInvalid(D, request, data) THEN BadRequest(D, S)
    ELSE LET r1 == UserInsert(D, S, data, request.tenant, FALSE)
             r2 == IF r1.ok
                   THEN SetPasswordAndSave(r1.db, r1.seq, r1.ret, data.password)
                   ELSE r1
             student_role == StudentRole(r2.db, request.tenant)
             r3 == IF r2.ok /\ student_role # NoId
                   THEN assign_role(r2.db, r2.seq, r1.ret, student_role,
                                    request.tenant, request.user)
                   ELSE r2
         IN  IF r3.ok
             THEN Response(201, r3.db, r3.seq, r1.ret,
                           [NoRecords EXCEPT !.users = {Row(r3.db.users, r1.ret)}])
             ELSE ServerError(r3.db, r3.seq)

\* The fields of UserSerializer that are not read-only.
UserWritable == {"username", "email", "is_active"}

\* serializer.validated_data
ValidatedData(data) == [k \in DOMAIN data \cap UserWritable |-> data[k]]

\* UserSerializer: the UniqueValidator of the username field (every user
\* but the instance), then validate_email, validate_username and validate.
UserUpdateInvalid(D, request, pk, data) ==
    \/ /\ "username" \in DOMAIN data
       /\ \E u \in D.users : u.username = data["username"] /\ u.id # pk
    \/ /\ "email" \in DOMAIN data
       /\ \E u \in D.users :
            u.email = data["email"] /\ u.tenant_id = request.tenant /\ u.id # pk
    \/ /\ "username" \in DOMAIN data
       /\ \E u \in D.users :
            u.username = data["username"] /\ u.tenant_id = request.tenant /\ u.id # pk
    \/ Row(D.users, pk).tenant_id # request.tenant

\* UserViewSet.update / partial_update
UserViewSet_update(D, S, request, pk, data) ==
    IF ~IsTenantMember(D, request) THEN Denied(D, S)
    ELSE IF ~HasRow(UserQueryset(D, request), pk) THEN NotFound(D, S)
    ELSE IF ~IsOwnerOrAdmin(D, request, pk) THEN Denied(D, S)
    ELSE IF UserUpdateInvalid(D, request, pk, data) THEN BadRequest(D, S)
    ELSE LET res == update_user(D, S, pk, ValidatedData(data))
         IN  IF res.ok
             THEN Response(200, res.db, res.seq, pk, UserRecords(res.db, pk))
             ELSE ServerError(res.db, res.seq)

\* UserViewSet.destroy: perform_destroy deactivates.
UserViewSet_destroy(D, S, request, pk) ==
    IF ~(IsTenantMember(D, request) /\ IsAdminRole(D, request)) THEN Denied(D, S)
    ELSE IF ~HasRow(UserQueryset(D, request), pk) THEN NotFound(D, S)
    ELSE LET res == deactivate_user(D, S, pk)
         IN  Response(204, res.db, res.seq, pk, NoRecords)

\* Role.objects.get(id=role_id, tenant=request.tenant)
RoleInTenant(D, request, role_id) ==
    \E r \in D.roles : r.id = role_id /\ r.tenant_id = request.tenant

\* UserViewSet.assign_role
UserViewSet_assign_role(D, S, request, pk, role_id) ==
    IF ~(IsTenantMember(D, request) /\ CanManageRoles(D, request)) THEN Denied(D, S)
    ELSE IF ~HasRow(UserQueryset(D, request), pk) THEN NotFound(D, S)
    ELSE IF role_id = NoId THEN BadRequest(D, S)
    ELSE IF ~RoleInTenant(D, request, role_id) THEN NotFound(D, S)
    ELSE LET res == assign_role(D, S, pk, role_id, request.tenant, request.user)
         IN  IF res.ok
             THEN Response(201, res.db, res.seq, res.ret,
                    [NoRecords EXCEPT !.user_roles = {Row(res.db.user_roles, res.ret)}])
             ELSE IF res.err = "IntegrityError" THEN ServerError(res.db, res.seq)
             ELSE BadRequest(res.db, res.seq)

\* UserViewSet.remove_role
UserViewSet_remove_role(D, S, request, pk, role_id) ==
    IF ~(IsTenantMember(D, request) /\ CanManageRoles(D, request)) THEN Denied(D, S)
    ELSE IF ~HasRow(UserQueryset(D, request), pk) THEN NotFound(D, S)
    ELSE IF role_id = NoId THEN BadRequest(D, S)
    ELSE IF ~RoleInTenant(D, request, role_id) THEN NotFound(D, S)
    ELSE LET res == remove_role(D, S, pk, role_id, request.tenant)
         IN  IF res.ret > 0
             THEN Response(204, res.db, res.seq, NoId, NoRecords)
             ELSE NotFound(res.db, res.seq)

\* RoleViewSet.get_queryset
RoleQueryset(D, request) ==
    IF request.tenant = NoId THEN {}
    ELSE {r \in D.roles : r.tenant_id = request.tenant}

\* RoleViewSet.list
RoleViewSet_list(D, S, request) ==
    IF ~IsTenantMember(D, request) THEN Denied(D, S)
    ELSE Response(200, D, S, NoId,
                  [NoRecords EXCEPT !.roles = RoleQueryset(D, request)])

\* RoleViewSet.retrieve
RoleViewSet_retrieve(D, S, request, pk) ==
    IF ~IsTenantMember(D, request) THEN Denied(D, S)
    ELSE IF ~HasRow(RoleQueryset(D, request), pk) THEN NotFound(D, S)
    ELSE Response(200, D, S, pk,
                  [NoRecords EXCEPT !.roles = {Row(D.roles, pk)}])

\* TenantViewSet.get_queryset
TenantQueryset(D, request) ==
    IF ~IsAuthenticated(D, request) THEN {}
    ELSE {t \in D.tenants : t.id = Row(D.users, request.user).tenant_id}

\* TenantViewSet.list
TenantViewSet_list(D, S, request) ==
    IF ~IsAuthenticated(D, request) THEN Denied(D, S)
    ELSE Response(200, D, S, NoId,
                  [NoRecords EXCEPT !.tenants = TenantQueryset(D, request)])

\* TenantViewSet.retrieve
TenantViewSet_retrieve(D, S, request, pk) ==
    IF ~IsAuthenticated(D, request) THEN Denied(D, S)
    ELSE IF ~HasRow(TenantQueryset(D, request), pk) THEN NotFound(D, S)
    ELSE Response(200, D, S, pk,
                  [NoRecords EXCEPT !.tenants = {Row(D.tenants, pk)}])

\* TenantViewSet.update / partial_update: TenantSerializer keeps the
\* subdomain unique and writes the fields given.
TenantViewSet_update(D, S, request, pk, data) ==
    IF ~(IsAuthenticated(D, request) /\ IsAdminRole(D, request)) THEN Denied(D, S)
    ELSE IF ~HasRow(TenantQueryset(D, request), pk) THEN NotFound(D, S)
    ELSE IF /\ "subdomain" \in DOMAIN data
            /\ \E t \in D.tenants : t.subdomain = data["subdomain"] /\ t.id # pk
    THEN BadRequest(D, S)
    ELSE LET old == Row(D.tenants, pk)
             new == [f \in DOMAIN old |-> IF f \in DOMAIN data THEN data[f] ELSE old[f]]
         IN  Response(200, [D EXCEPT !.tenants = (@ \ {old}) \cup {new}], S, pk,
                      [NoRecords EXCEPT !.tenants = {new}])

\* Tenant.delete(): users, roles and user roles go with their tenant, user
\* roles with their user and their role (CASCADE); assigned_by of the
\* user roles that stay is set to null (SET_NULL).
CascadeDelete(D, tenant_id) ==
    LET users_gone == {u.id : u \in {v \in D.users : v.tenant_id = tenant_id}}
        roles_gone == {r.id : r \in {q \in D.roles : q.tenant_id = tenant_id}}
        stay == {x \in D.user_roles :
                    /\ x.tenant_id # tenant_id
                    /\ x.user_id \notin users_gone
                    /\ x.role_id \notin roles_gone}
    IN  [tenants |-> {t \in D.tenants : t.id # tenant_id},
         users |-> {u \in D.users : u.tenant_id # tenant_id},
         roles |-> {r \in D.roles : r.tenant_id # tenant_id},
         user_roles |-> {IF x.assigned_by \in users_gone
                         THEN [x EXCEPT !.assigned_by = NoId] ELSE x : x \in stay}]

\* TenantViewSet.destroy
TenantViewSet_destroy(D, S, request, pk) ==
    IF ~IsAuthenticated(D, request) THEN Denied(D, S)
    ELSE IF ~HasRow(TenantQueryset(D, request), pk) THEN NotFound(D, S)
    ELSE Response(204, CascadeDelete(D, pk), S, pk, NoRecords)

(***************************************************************************)
(* SpecProvision: tenants are provisioned, with any admin data and with    *)
(* the store failing at any statement.                                     *)
(***************************************************************************)
NextProvision ==
    \/ \E td \in TenantData, ud \in AnyUserData, f \in Faults :
            CreateTenantWithAdmin(td, ud, f)
    \/ \E td \in TenantData : TenantCreate(td)

SpecProvision == Init /\ [][NextProvision]_vars

(***************************************************************************)
(* C7.  create_tenant_with_admin is all-or-nothing: a call that fails, at  *)
(* whichever statement, leaves the tables as they were before it.          *)
(***************************************************************************)
C7_ProvisioningAllOrNothing ==
    [][(last'.op = "create_tenant_with_admin" /\ ~last'.ok) => db' = db]_vars

\* A call has just failed after it had inserted the tenant's roles (their
\* ids are taken), and no role it wrote is stored.
C7_Witness ==
    /\ last.op = "create_tenant_with_admin"
    /\ ~last.ok
    /\ seq.role > 3 * Cardinality({r.tenant_id : r \in db.roles}) + 1
    /\ seq.tenant > Cardinality(db.tenants) + 1

(***************************************************************************)
(* C9.  After a successful create_tenant_with_admin (a password being      *)
(* supplied): the tenant exists and is active; its roles are exactly       *)
(* admin, instructor and student, each a system role with the permission   *)
(* set of the default table; the admin user is of the new tenant, is staff *)
(* and its password verifies against the supplied one; exactly one         *)
(* UserRole links the admin user to the tenant's admin role.               *)
(***************************************************************************)
\* The table of section 4.3 of the specification.
DefaultTable ==
    [admin |-> {"manage_users", "manage_roles", "manage_courses",
                "manage_assessments", "view_analytics", "manage_settings"},
     instructor |-> {"create_courses", "manage_own_courses", "create_assessments",
                     "grade_submissions", "view_student_progress",
                     "issue_certificates"},
     student |-> {"enroll_courses", "view_courses", "submit_assessments",
                  "view_own_progress", "view_certificates"}]

Provisioned(D, tenant_id, admin_id) ==
    LET its_roles == {r \in D.roles : r.tenant_id = tenant_id}
    IN  /\ \E t \in D.tenants : t.id = tenant_id /\ t.is_active
        /\ Cardinality(its_roles) = 3
        /\ {r.name : r \in its_roles} = {"admin", "instructor", "student"}
        /\ \A r \in its_roles :
                r.is_system_role /\ r.permissions = DefaultTable[r.name]
        /\ \E u \in D.users :
                u.id = admin_id /\ u.tenant_id = tenant_id /\ u.is_staff
        /\ Cardinality({x \in D.user_roles :
                            /\ x.user_id = admin_id
                            /\ \E r \in its_roles : r.id = x.role_id /\ r.name = "admin"})
             = 1
        /\ \A x \in D.user_roles : x.user_id = admin_id => x.tenant_id = tenant_id

AttachableTenants == {t.id : t \in {x \in db.tenants : x.is_active}}

\* The body of a PUT or PATCH on a user: writable and read-only fields.
ApiPatches == {[id |-> u, username |-> "b", is_staff |-> TRUE] : u \in UserIds}

TenantPatches == {[is_active |-> b] : b \in BOOLEAN}

ApiUserCreate(actor, tenant, data) ==
    /\ Quiet
    /\ LET res == UserViewSet_create(db, seq, Request(actor, tenant), data)
       IN  Commit(res, CallRecord("user_create", res))

ApiUserUpdate(actor, tenant, pk, data) ==
    /\ Quiet
    /\ LET res == UserViewSet_update(db, seq, Request(actor, tenant), pk, data)
       IN  Commit(res, CallRecord("user_update", res))

ApiUserDestroy(actor, tenant, pk) ==
    /\ Quiet
    /\ LET res == UserViewSet_destroy(db, seq, Request(actor, tenant), pk)
       IN  Commit(res, CallRecord("user_destroy", res))

ApiAssignRole(actor, tenant, pk, role_id) ==
    /\ Quiet
    /\ LET res == UserViewSet_assign_role(db, seq, Request(actor, tenant), pk, role_id)
       IN  Commit(res, CallRecord("user_assign_role", res))

ApiRemoveRole(actor, tenant, pk, role_id) ==
    /\ Quiet
    /\ LET res == UserViewSet_remove_role(db, seq, Request(actor, tenant), pk, role_id)
       IN  Commit(res, CallRecord("user_remove_role", res))

ApiTenantUpdate(actor, tenant, pk, data) ==
    /\ Quiet
    /\ LET res == TenantViewSet_update(db, seq, Request(actor, tenant), pk, data)
       IN  Commit(res, CallRecord("tenant_update", res))

ApiTenantDestroy(actor, tenant, pk) ==
    /\ Quiet
    /\ LET res == TenantViewSet_destroy(db, seq, Request(actor, tenant), pk)
       IN  Commit(res, CallRecord("tenant_destroy", res))

NextApi ==
    \/ \E td \in TenantData : CreateTenantWithAdmin(td, AdminUserData, "none")
    \/ \E actor \in UserIds, t \in AttachableTenants :
            ApiUserCreate(actor, t, MemberUserData)
    \/ \E actor \in UserIds, t \in AttachableTenants, pk \in UserIds,
            data \in ApiPatches : ApiUserUpdate(actor, t, pk, data)
    \/ \E actor \in UserIds, t \in AttachableTenants, pk \in UserIds :
            ApiUserDestroy(actor, t, pk)
    \/ \E actor \in UserIds, t \in AttachableTenants, pk \in UserIds,
            r \in InstructorRoleIds : ApiAssignRole(actor, t, pk, r)
    \/ \E actor \in UserIds, t \in AttachableTenants, pk \in UserIds,
            r \in InstructorRoleIds : ApiRemoveRole(actor, t, pk, r)
    \/ \E actor \in UserIds, t \in AttachableTenants, pk \in TenantIds,
            data \in TenantPatches : ApiTenantUpdate(actor, t, pk, data)
    \/ \E actor \in UserIds, t \in AttachableTenants, pk \in TenantIds :
            ApiTenantDestroy(actor, t, pk)
    \/ \E u \in UserIds, patch \in Patches : UpdateUser(u, patch)

SpecApi == Init /\ [][NextApi]_vars

(***************************************************************************)
(* C2.  Tenant isolation: whatever an actor of tenant A asks of the user,  *)
(* role and tenant endpoints, and whatever the tenant-scoped service       *)
(* queries return for A, no User, Role or UserRole record of another       *)
(* tenant is returned, created, modified or deleted.                       *)
(***************************************************************************)
ScopedTables == {"users", "roles", "user_roles"}

OnlyOf(A, records) ==
    \A n \in ScopedTables : \A row \in records[n] : row.tenant_id = A

Untouched(A, before, after) ==
    \A n \in ScopedTables :
        {row \in after[n] : row.tenant_id # A} = {row \in before[n] : row.tenant_id # A}

\* The responses of every guarded endpoint to a request, over all inputs.
EndpointResponses(request) ==
    {UserViewSet_list(db, seq, request), RoleViewSet_list(db, seq, request),
     TenantViewSet_list(db, seq, request)}
    \cup {UserViewSet_retrieve(db, seq, request, pk) : pk \in UserIds}
    \cup {UserViewSet_create(db, seq, request, data) : data \in AnyUserData}
    \cup {UserViewSet_update(db, seq, request, pk, data) :
            pk \in UserIds, data \in ApiPatches}
    \cup {UserViewSet_destroy(db, seq, request, pk) : pk \in UserIds}
    \cup {UserViewSet_assign_role(db, seq, request, pk, r) :
            pk \in UserIds, r \in RoleIds \cup {NoId}}
    \cup {UserViewSet_remove_role(db, seq, request, pk, r) :
            pk \in UserIds, r \in RoleIds \cup {NoId}}
    \cup {RoleViewSet_retrieve(db, seq, request, pk) : pk \in RoleIds}
    \cup {TenantViewSet_retrieve(db, seq, request, pk) : pk \in TenantIds}
    \cup {TenantViewSet_update(db, seq, request, pk, data) :
            pk \in TenantIds, data \in TenantPatches}
    \cup {TenantViewSet_destroy(db, seq, request, pk) : pk \in TenantIds}

C2_TenantIsolation ==
    \A actor \in db.users, t \in AttachableTenants \cup {NoId} :
        LET A == actor.tenant_id
        IN  /\ \A resp \in EndpointResponses(Request(actor.id, t)) :
                    OnlyOf(A, resp.records) /\ Untouched(A, db, resp.db)
            /\ \A u \in get_users_by_tenant(db, A) : u.tenant_id = A
            /\ \A u \in UserIds : \A x \in get_user_roles(db, u, A) : x.tenant_id = A
            /\ \A r \in RoleIds : \A u \in get_users_with_role(db, r, A) : u.tenant_id = A

(***************************************************************************)
(* SpecConc: two workers run create_tenant_with_admin and assign_role one  *)
(* statement at a time, each call in its own transaction, while user       *)
(* roles are also created directly.  db holds the committed rows, which    *)
(* is what any other transaction reads; pend[w] holds the rows worker w    *)
(* has written and not committed.                                          *)
(***************************************************************************)

\* The committed rows after a statement of an open transaction wrote, with
\* every write visible at once.
AutocommitCommitted(committed, view) == view

\* @transaction.atomic: the committed rows after a statement of an open
\* transaction wrote.
AtomicCommitted(committed, view) == committed

\* @transaction.atomic: the rows the open transaction holds back.
AtomicPending(committed, view) == Written(view, committed)

\* The store makes an insert wait while another open transaction holds an
\* uncommitted row with the same unique key.
TenantKeyHeld(w, subdomain) ==
    \E v \in Workers \ {w} : \E t \in pend[v].tenants : t.subdomain = subdomain

UserRoleKeyHeld(w, user_id, role_id, tenant_id) ==
    \E v \in Workers \ {w} : \E x \in pend[v].user_roles :
        x.user_id = user_id /\ x.role_id = role_id /\ x.tenant_id = tenant_id

\* The transaction of worker w ends: rolled back when its call raised,
\* committed otherwise.  The call returns to its caller.
EndTransaction(w, ok, rec) ==
    /\ db' = IF ok THEN Overlay(db, pend[w]) ELSE db
    /\ pend' = [pend EXCEPT ![w] = EmptyTables]
    /\ pc' = [pc EXCEPT ![w] = "idle"]
    /\ call' = [call EXCEPT ![w] = Idle]
    /\ last' = rec

\* create_tenant_with_admin is entered.
CtBegin(w, tenant_data, admin_user_data, fault) ==
    /\ pc[w] = "idle"
    /\ pc' = [pc EXCEPT ![w] = "create_tenant_with_admin"]
    /\ call' = [call EXCEPT ![w] =
                    [Idle EXCEPT !.i = 1,
                                 !.c = CtCall(tenant_data, admin_user_data, fault)]]
    /\ UNCHANGED <<db, seq, last, pend>>

\* The next statement of create_tenant_with_admin runs; if it raises, the
\* transaction is rolled back and the call raises.
CtStep(w) ==
    /\ pc[w] = "create_tenant_with_admin"
    /\ call[w].i <= Len(CtSteps)
    /\ LET step == CtSteps[call[w].i]
           c == call[w].c
           res == CtStatement(step, Overlay(db, pend[w]), seq, c)
       IN  /\ step = "tenant" => ~TenantKeyHeld(w, c.tenant_data.subdomain)
           /\ InBounds(res.seq)
           /\ seq' = res.seq
           /\ IF res.ok
              THEN /\ db' = AtomicCommitted(db, res.db)
                   /\ pend' = [pend EXCEPT ![w] = AtomicPending(db, res.db)]
                   /\ call' = [call EXCEPT ![w] =
                                [@ EXCEPT !.i = @ + 1, !.c = CtBind(step, c, res.ret)]]
                   /\ UNCHANGED <<pc, last>>
              ELSE EndTransaction(w, FALSE, CallRecord("create_tenant_with_admin", res))

\* create_tenant_with_admin returns: the transaction commits.
CtReturn(w) ==
    /\ pc[w] = "create_tenant_with_admin"
    /\ call[w].i > Len(CtSteps)
    /\ EndTransaction(w, TRUE,
            CallRecord("create_tenant_with_admin", Ok(db, seq, call[w].c.tenant)))
    /\ UNCHANGED seq

\* assign_role up to its existence check: it raises on a tenant mismatch,
\* returns the row it finds, and goes on to the insert when it finds none.
ArCheck(w, user_id, role_id, tenant_id, assigned_by) ==
    /\ pc[w] = "idle"
    /\ LET err == AssignRoleValidation(db, user_id, role_id, tenant_id, assigned_by)
           existing == ExistingAssignment(db, user_id, role_id, tenant_id)
       IN  IF err # ""
           THEN /\ last' = CallRecord("assign_role", Raise(db, seq, err))
                /\ UNCHANGED <<db, seq, pc, call, pend>>
           ELSE IF existing # NoId
           THEN /\ last' = CallRecord("assign_role", Ok(db, seq, existing))
                /\ UNCHANGED <<db, seq, pc, call, pend>>
           ELSE /\ pc' = [pc EXCEPT ![w] = "assign_role"]
                /\ call' = [call EXCEPT ![w] =
                                [Idle EXCEPT !.user_id = user_id, !.role_id = role_id,
                                             !.tenant_id = tenant_id,
                                             !.assigned_by = assigned_by]]
                /\ UNCHANGED <<db, seq, last, pend>>

\* assign_role, UserRole.objects.create: nothing catches what it raises, so
\* a rejected insert ends the call with the store's error.
ArInsert(w) ==
    /\ pc[w] = "assign_role"
    /\ pend[w] = EmptyTables
    /\ ~UserRoleKeyHeld(w, call[w].user_id, call[w].role_id, call[w].tenant_id)
    /\ LET res == UserRoleCreate(db, seq, call[w].user_id, call[w].role_id,
                                 call[w].tenant_id, call[w].assigned_by)
       IN  /\ InBounds(res.seq)
           /\ seq' = res.seq
           /\ IF res.ok
              THEN /\ db' = AtomicCommitted(db, res.db)
                   /\ pend' = [pend EXCEPT ![w] = AtomicPending(db, res.db)]
                   /\ call' = [call EXCEPT ![w] = [@ EXCEPT !.i = res.ret]]
                   /\ UNCHANGED <<pc, last>>
              ELSE EndTransaction(w, FALSE, CallRecord("assign_role", res))

\* assign_role returns the row it inserted: the transaction commits.
ArReturn(w) ==
    /\ pc[w] = "assign_role"
    /\ pend[w] # EmptyTables
    /\ EndTransaction(w, TRUE, CallRecord("assign_role", Ok(db, seq, call[w].i)))
    /\ UNCHANGED seq

\* UserRole.objects.create(...) outside the service, in a transaction of
\* its own.
UserRoleDirectCreate(user_id, role_id, tenant_id) ==
    /\ ~UserRoleKeyHeld(0, user_id, role_id, tenant_id)
    /\ LET res == UserRoleCreate(db, seq, user_id, role_id, tenant_id, NoId)
       IN  /\ InBounds(res.seq)
           /\ db' = res.db
           /\ seq' = res.seq
           /\ last' = CallRecord("user_role_create", res)
           /\ UNCHANGED <<pc, call, pend>>

NextConc ==
    \/ \E w \in Workers, td \in TenantData, f \in {"none", "grant"} :
            CtBegin(w, td, AdminUserData, f)
    \/ \E w \in Workers : CtStep(w)
    \/ \E w \in Workers : CtReturn(w)
    \/ \E w \in Workers, u \in UserIds, r \in RoleIds, t \in TenantIds :
            ArCheck(w, u, r, t, NoId)
    \/ \E w \in Workers : ArInsert(w)
    \/ \E w \in Workers : ArReturn(w)
    \/ \E u \in UserIds, r \in RoleIds, t \in TenantIds : UserRoleDirectCreate(u, r, t)

SpecConc == Init /\ [][NextConc]_vars

(***************************************************************************)
(* C5.  Whatever the interleaving of assign_role calls and direct          *)
(* creations, no two UserRole rows have the same (user, role, tenant),     *)
(* neither among the committed rows nor in what any transaction sees.      *)
(***************************************************************************)
NoDuplicateAssignment(D) ==
    \A x, y \in D.user_roles :
        (x.user_id = y.user_id /\ x.role_id = y.role_id /\ x.tenant_id = y.tenant_id)
            => x = y

C5_NoDuplicateAssignments ==
    /\ NoDuplicateAssignment(db)
    /\ \A w \in Workers : NoDuplicateAssignment(Overlay(db, pend[w]))

\* A worker that passed the existence check has just had its insert
\* rejected, and the triple it asked for has one row.
C5_Witness ==
    /\ last.op = "assign_role"
    /\ last.err = "IntegrityError"
    /\ \E x \in db.user_roles :
            Cardinality(AssignmentsOf(db, x.user_id, x.role_id, x.tenant_id)) = 1

(***************************************************************************)
(* C6.  When a caller of assign_role has passed the existence check and    *)
(* another assign_role call has meanwhile returned the row of the same     *)
(* triple, the caller, its insert rejected by the store as a duplicate,    *)
(* returns that row too and raises no error.                               *)
(***************************************************************************)
C6_RejectedInsertReturnsExisting ==
    [][\A w \in Workers :
        (/\ pc[w] = "assign_role" /\ pend[w] = EmptyTables /\ pc'[w] = "idle"
         /\ last.op = "assign_role" /\ last.ok
         /\ last.ret = ExistingAssignment(db, call[w].user_id, call[w].role_id,
                                          call[w].tenant_id))
            => /\ last'.op = "assign_role"
               /\ last'.ok
               /\ last'.ret = ExistingAssignment(db', call[w].user_id,
                                                 call[w].role_id, call[w].tenant_id)]_vars

(***************************************************************************)
(* C8.  A reader never sees a tenant of create_tenant_with_admin half      *)
(* made: every committed tenant has its three default roles, its staff     *)
(* admin user and that user's assignment to the admin role.                *)
(***************************************************************************)
Complete(D, tenant_id) ==
    LET its_roles == {r \in D.roles : r.tenant_id = tenant_id}
    IN  /\ {r.name : r \in its_roles} = {"admin", "instructor", "student"}
        /\ \E u \in D.users :
            /\ u.tenant_id = tenant_id
            /\ u.is_staff
            /\ \E x \in D.user_roles, r \in its_roles :
                /\ r.name = "admin"
                /\ x.user_id = u.id /\ x.role_id = r.id /\ x.tenant_id = tenant_id

C8_NoHalfCreatedTenant ==
    /\ \A t \in db.tenants : Complete(db, t.id)
    /\ \A n \in {"users", "roles", "user_roles"} :
        \A row \in db[n] : \E t \in db.tenants : t.id = row.tenant_id

\* One worker is past the tenant, roles and user statements of its call
\* with nothing of it committed, next to a committed tenant.
C8_Witness ==
    /\ \E w \in Workers :
        /\ pc[w] = "create_tenant_with_admin"
        /\ call[w].i > 3
        /\ pend[w].tenants # {} /\ pend[w].roles # {} /\ pend[w].users # {}
    /\ db.tenants # {}

(***************************************************************************)
(* TenantMiddleware (lms_project/middleware/tenant.py).  A path is the     *)
(* sequence of its pieces between slashes ("/admin/" is <<"", "admin",     *)
(* "">>), a host the sequence of its labels.  A request carries its path,  *)
(* its Authorization header (the scheme, "" for no header, whether the     *)
(* token decodes under the secret key, and its tenant_id claim), its       *)
(* X-Tenant header (NULL or a subdomain) and its host.                     *)
(***************************************************************************)
EXCLUDED_PATHS ==
    {<<"", "admin", "">>,
     <<"", "api", "v1", "auth", "token", "">>,
     <<"", "api", "v1", "auth", "register", "">>,
     <<"", "api", "v1", "tenants", "">>}

\* path.startswith(prefix), for a prefix that ends with a slash.
StartsWith(path, prefix) ==
    /\ Len(path) >= Len(prefix)
    /\ \A i \in 1..(Len(prefix) - 1) : path[i] = prefix[i]

\* TenantMiddleware._should_skip_tenant_check
should_skip_tenant_check(request) ==
    \E prefix \in EXCLUDED_PATHS : StartsWith(request.path, prefix)

\* Tenant.objects.filter(id=tenant_id, is_active=True).first()
ActiveTenantById(D, tenant_id) ==
    FirstId({t \in D.tenants : t.id = tenant_id /\ t.is_active})

\* Tenant.objects.filter(subdomain=subdomain, is_active=True).first()
ActiveTenantBySubdomain(D, subdomain) ==
    FirstId({t \in D.tenants : t.subdomain = subdomain /\ t.is_active})

\* _get_tenant_from_jwt reading the claim of a token it cannot verify.
get_tenant_from_jwt_unverified(D, request) ==
    IF request.authorization.scheme # "Bearer" THEN NoId
    ELSE IF request.authorization.tenant_id = NoId THEN NoId
    ELSE ActiveTenantById(D, request.authorization.tenant_id)

\* TenantMiddleware._get_tenant_from_jwt
get_tenant_from_jwt(D, request) ==
    IF request.authorization.scheme # "Bearer" THEN NoId
    ELSE IF ~request.authorization.valid THEN NoId
    ELSE IF request.authorization.tenant_id = NoId THEN NoId
    ELSE ActiveTenantById(D, request.authorization.tenant_id)

\* TenantMiddleware._get_tenant_from_header
get_tenant_from_header(D, request) ==
    IF Truthy(request.x_tenant) THEN ActiveTenantBySubdomain(D, request.x_tenant)
    ELSE NoId

\* TenantMiddleware._extract_subdomain
extract_subdomain(host) ==
    IF Len(host) > 2 /\ host[1] \notin {"www", "api"} THEN host[1] ELSE NULL

\* TenantMiddleware._get_tenant_from_subdomain
get_tenant_from_subdomain(D, request) ==
    LET subdomain == extract_subdomain(request.host)
    IN  IF Truthy(subdomain) THEN ActiveTenantBySubdomain(D, subdomain) ELSE NoId

\* The resolvers tried header first: header or jwt or subdomain.
extract_tenant_header_first(D, request) ==
    IF get_tenant_from_header(D, request) # NoId THEN get_tenant_from_header(D, request)
    ELSE IF get_tenant_from_jwt(D, request) # NoId
    THEN get_tenant_from_jwt(D, request)
    ELSE get_tenant_from_subdomain(D, request)

\* TenantMiddleware._extract_tenant_from_request: jwt or header or subdomain.
extract_tenant_from_request(D, request) ==
    IF get_tenant_from_jwt(D, request) # NoId THEN get_tenant_from_jwt(D, request)
    ELSE IF get_tenant_from_header(D, request) # NoId
    THEN get_tenant_from_header(D, request)
    ELSE get_tenant_from_subdomain(D, request)

\* What process_request leaves: the response it returns ("None" lets the
\* request go on to the handler) and request.tenant (NoId when not set).
Passed(tenant) == [response |-> "None", tenant |-> tenant]

Rejected(response) == [response |-> response, tenant |-> NoId]

\* process_request without the rejection of an unresolved tenant.
process_request_unresolved_passes(D, request) ==
    LET tenant == extract_tenant_from_request(D, request)
    IN  IF should_skip_tenant_check(request) THEN Passed(NoId)
        ELSE IF tenant # NoId /\ ~Row(D.tenants, tenant).is_active
        THEN Rejected("403 Tenant is inactive")
        ELSE Passed(tenant)

\* TenantMiddleware.process_request
process_request(D, request) ==
    LET tenant == extract_tenant_from_request(D, request)
    IN  IF should_skip_tenant_check(request) THEN Passed(NoId)
        ELSE IF tenant = NoId THEN Rejected("400 Tenant not found or invalid")
        ELSE IF ~Row(D.tenants, tenant).is_active
        THEN Rejected("403 Tenant is inactive")
        ELSE Passed(tenant)

\* TenantViewSet.register: the required fields, then the service; whatever
\* the service raises is answered with 400.
TenantViewSet_register(D, S, tenant_data, admin_user_data) ==
    IF \/ ~Truthy(tenant_data.subdomain) \/ ~Truthy(admin_user_data.username)
       \/ ~Truthy(admin_user_data.email) \/ ~Truthy(admin_user_data.password)
    THEN BadRequest(D, S)
    ELSE LET res == create_tenant_with_admin(D, S, tenant_data, admin_user_data, "none")
         IN  IF res.ok THEN Response(201, res.db, res.seq, res.ret, NoRecords)
             ELSE BadRequest(res.db, res.seq)

(***************************************************************************)
(* SpecMw: tenants are provisioned, deactivated, reactivated and deleted   *)
(* by their administrators, and requests of every shape arrive.            *)
(***************************************************************************)
\* The paths the URL configuration routes to the administrative console, to
\* token issuance, to TenantViewSet.register and to TenantViewSet.list.
Routes ==
    [admin |-> <<"", "admin", "">>,
     token |-> <<"", "api", "v1", "auth", "token", "">>,
     register |-> <<"", "api", "v1", "users", "tenants", "register", "">>,
     tenants |-> <<"", "api", "v1", "users", "tenants", "">>]

Paths ==
    {Routes[k] : k \in DOMAIN Routes}
    \cup {<<"", "api", "v1", "tenants", "1", "">>,
          <<"", "api", "v1", "users", "">>,
          <<"", "api", "v1", "users", "roles", "">>}

Authorizations ==
    {[scheme |-> s, valid |-> v, tenant_id |-> t] :
        s \in {"", "Bearer", "Basic"}, v \in BOOLEAN, t \in 0..MaxTenants}

Hosts ==
    {<<"localhost">>, <<"example", "com">>, <<"www", "example", "com">>,
     <<"t1", "example", "com">>, <<"t2", "example", "com">>}

MwRequests ==
    {[path |-> p, authorization |-> a, x_tenant |-> x, host |-> h] :
        p \in Paths, a \in Authorizations, x \in Subdomains \cup {NULL, ""},
        h \in Hosts}

ProcessRequest(request) ==
    /\ Quiet
    /\ LET out == process_request(db, request)
       IN  last' = [op |-> "process_request", ok |-> out.response = "None",
                    err |-> IF out.response = "None" THEN "" ELSE out.response,
                    ret |-> out.tenant]
    /\ UNCHANGED <<db, seq, pc, call, pend>>

\* A registration request: the middleware, then TenantViewSet.register.
Register(request, tenant_data, admin_user_data) ==
    /\ Quiet
    /\ request.path = Routes.register
    /\ LET out == process_request(db, request)
           res == TenantViewSet_register(db, seq, tenant_data, admin_user_data)
       IN  IF out.response = "None"
           THEN Commit(res, CallRecord("register", res))
           ELSE /\ last' = [op |-> "register", ok |-> FALSE, err |-> out.response,
                            ret |-> NoId]
                /\ UNCHANGED <<db, seq, pc, call, pend>>

NextMw ==
    \/ \E td \in TenantData : CreateTenantWithAdmin(td, AdminUserData, "none")
    \/ \E td \in TenantData : TenantCreate(td)
    \/ \E actor \in UserIds, t \in AttachableTenants, pk \in TenantIds,
            data \in TenantPatches : ApiTenantUpdate(actor, t, pk, data)
    \/ \E actor \in UserIds, t \in AttachableTenants, pk \in TenantIds :
            ApiTenantDestroy(actor, t, pk)
    \/ \E request \in MwRequests : ProcessRequest(request)
    \/ \E request \in MwRequests, td \in TenantData :
            Register(request, td, AdminUserData)

SpecMw == Init /\ [][NextMw]_vars

(***************************************************************************)
(* C10.  On a path that is not exempt, the middleware lets a request on    *)
(* to the handler only with a tenant attached that is stored and active;   *)
(* otherwise it answers with a rejection and attaches no tenant.           *)
(***************************************************************************)
C10_MiddlewareAttachesActiveTenant ==
    \A request \in MwRequests :
        ~should_skip_tenant_check(request)
            => LET out == process_request(db, request)
               IN  IF out.response = "None"
                   THEN \E t \in db.tenants : t.id = out.tenant /\ t.is_active
                   ELSE /\ out.tenant = NoId
                        /\ out.response \in {"400 Tenant not found or invalid",
                                             "403 Tenant is inactive"}

\* A request has just passed with an active tenant attached while another
\* tenant is stored inactive.
C10_Witness ==
    /\ last.op = "process_request"
    /\ last.ok
    /\ \E t \in db.tenants : t.id = last.ret /\ t.is_active
    /\ \E t \in db.tenants : ~t.is_active

(***************************************************************************)
(* C11.  A request on a non-exempt path with no bearer token and an        *)
(* X-Tenant header naming a stored tenant that is inactive is rejected     *)
(* with the "tenant inactive" error; the same request naming an active     *)
(* tenant has that tenant attached.                                        *)
(***************************************************************************)
NoBearer(request) == request.authorization.scheme # "Bearer"

C11_InactiveTenantByHeader ==
    \A request \in MwRequests : \A t \in db.tenants :
        (/\ ~should_skip_tenant_check(request)
         /\ NoBearer(request)
         /\ request.x_tenant = t.subdomain)
            => process_request(db, request) =
                    IF t.is_active THEN [response |-> "None", tenant |-> t.id]
                    ELSE [response |-> "403 Tenant is inactive", tenant |-> NoId]

(***************************************************************************)
(* C12.  Tenant resolution takes the tenant of the bearer token's          *)
(* tenant_id claim; when that yields none, the tenant of the X-Tenant      *)
(* header; when that yields none too, the tenant of the host's first       *)
(* label (of a host of more than two labels, not www or api); and none     *)
(* when no signal yields a tenant.  A claim naming active tenant A wins    *)
(* over a header naming active tenant B.                                   *)
(***************************************************************************)
ActiveIds(D) == {t.id : t \in {x \in D.tenants : x.is_active}}

ActiveNamed(D, subdomain) ==
    {t.id : t \in {x \in D.tenants : x.is_active /\ x.subdomain = subdomain}}

\* The tenants each signal of a request names, as sets of ids.
ClaimSignal(D, request) ==
    IF request.authorization.scheme = "Bearer" /\ request.authorization.valid
    THEN {request.authorization.tenant_id} \cap ActiveIds(D)
    ELSE {}

HeaderSignal(D, request) ==
    IF request.x_tenant \in {NULL, ""} THEN {} ELSE ActiveNamed(D, request.x_tenant)

HostSignal(D, request) ==
    IF Len(request.host) > 2 /\ request.host[1] # "www" /\ request.host[1] # "api"
    THEN ActiveNamed(D, request.host[1])
    ELSE {}

C12_ResolutionOrder ==
    \A request \in MwRequests :
        LET got == extract_tenant_from_request(db, request)
            claim == ClaimSignal(db, request)
            header == HeaderSignal(db, request)
            host == HostSignal(db, request)
        IN  /\ claim # {} => got \in claim
            /\ (claim = {} /\ header # {}) => got \in header
            /\ (claim = {} /\ header = {} /\ host # {}) => got \in host
            /\ (claim = {} /\ header = {} /\ host = {}) => got = NoId

\* Two tenants are active and a request whose token names one and whose
\* header names the other has just passed with the token's tenant.
C12_Witness ==
    /\ Cardinality(ActiveIds(db)) = 2
    /\ last.op = "process_request"
    /\ last.ok
    /\ \E request \in MwRequests :
        /\ ~should_skip_tenant_check(request)
        /\ ClaimSignal(db, request) = {last.ret}
        /\ HeaderSignal(db, request) # {}
        /\ HeaderSignal(db, request) # {last.ret}

(***************************************************************************)
(* C13.  A request to the administrative console, to token issuance, to    *)
(* tenant registration or to the tenant listing, whatever its token,       *)
(* header and host, is not rejected by the middleware and goes on with no  *)
(* tenant attached.                                                        *)
(***************************************************************************)
C13_ExemptEndpointsPass ==
    \A request \in MwRequests :
        (\E k \in DOMAIN Routes : request.path = Routes[k])
            => process_request(db, request) = [response |-> "None", tenant |-> NoId]

(***************************************************************************)
(* C14.  A bearer token that does not decode or verify is as good as no    *)
(* Authorization header: the request has the outcome it would have         *)
(* without it, so with an X-Tenant header naming an active tenant it       *)
(* resolves to that tenant.                                                *)
(***************************************************************************)
WithoutAuthorization(request) ==
    [request EXCEPT !.authorization = [scheme |-> "", valid |-> FALSE, tenant_id |-> NoId]]

BadToken(request) ==
    request.authorization.scheme = "Bearer" /\ ~request.authorization.valid

C14_BadTokenIsNoSignal ==
    \A request \in MwRequests :
        BadToken(request)
            => /\ process_request(db, request)
                    = process_request(db, WithoutAuthorization(request))
               /\ \A id \in HeaderSignal(db, request) :
                    extract_tenant_from_request(db, request) = id

\* A tenant is active, another is stored, and a request has just passed
\* with the active tenant attached that a bad token naming the other and a
\* header naming the active one resolve to.
C14_Witness ==
    /\ last.op = "process_request"
    /\ last.ok
    /\ last.ret \in ActiveIds(db)
    /\ \E request \in MwRequests :
        /\ BadToken(request)
        /\ request.authorization.tenant_id \in TenantIds \ {last.ret}
        /\ HeaderSignal(db, request) = {last.ret}
        /\ ~should_skip_tenant_check(request)

(***************************************************************************)
(* SpecUsers: tenants are provisioned or created bare, users are created   *)
(* in them with the store failing at any statement, and passwords are      *)
(* changed.                                                                *)
(***************************************************************************)
NextUsers ==
    \/ \E td \in TenantData : CreateTenantWithAdmin(td, AdminUserData, "none")
    \/ \E td \in TenantData : TenantCreate(td)
    \/ \E p \in Passwords \cup {NULL}, t \in TenantIds, flag \in BOOLEAN, f \in UserFaults :
            CreateUser([MemberUserData EXCEPT !.password = p], t, flag, f)
    \/ \E t \in TenantIds : CreateUser(AdminUserData, t, TRUE, "none")
    \/ \E u \in UserIds, old \in AnyPasswords, new \in AnyPasswords :
            ChangePassword(u, old, new)

SpecUsers == Init /\ [][NextUsers]_vars

(***************************************************************************)
(* C15.  create_user is atomic: a call that fails, at the user insert, at  *)
(* the password save or at the grant of the student role, leaves no user   *)
(* row and no user-role row behind; the users and the user roles are as    *)
(* before the call.                                                        *)
(***************************************************************************)
C15_CreateUserAllOrNothing ==
    [][(last'.op = "create_user" /\ ~last'.ok)
            => /\ db'.users = db.users
               /\ db'.user_roles = db.user_roles
               /\ \A x \in db'.user_roles : \E u \in db'.users : u.id = x.user_id]_vars

\* A call has just failed after it had inserted its user (the id is taken)
\* and the user is not stored.
C15_Witness ==
    /\ last.op = "create_user"
    /\ ~last.ok
    /\ last.err = "DatabaseError"
    /\ db.users # {}
    /\ \A u \in db.users : u.id < seq.user - 1
    /\ \E r \in db.roles : r.name = STUDENT

(***************************************************************************)
(* C16.  After a successful create_user(data, tenant, flag) the user is a  *)
(* user of the tenant; with the flag set and a student role in the tenant  *)
(* the user holds that role in the tenant and no other; with the flag set  *)
(* and no student role in the tenant, or with the flag not set, the user   *)
(* is created and holds no role.                                           *)
(***************************************************************************)
StudentRolesOf(D, tenant_id) ==
    {r.id : r \in {x \in D.roles : x.tenant_id = tenant_id /\ x.name = STUDENT}}

HeldBy(D, user_id) == {x \in D.user_roles : x.user_id = user_id}

C16_CreateUserResult ==
    \A p \in Passwords \cup {NULL}, t \in TenantIds, flag \in BOOLEAN :
        LET res == create_user(db, seq, [MemberUserData EXCEPT !.password = p], t, flag)
            held == HeldBy(res.db, res.ret)
        IN  res.ok
            => /\ \E u \in res.db.users \ db.users : u.id = res.ret /\ u.tenant_id = t
               /\ (flag /\ StudentRolesOf(db, t) # {})
                    => /\ Cardinality(held) = 1
                       /\ \A x \in held : x.role_id \in StudentRolesOf(db, t)
                                          /\ x.tenant_id = t
               /\ (~flag \/ StudentRolesOf(db, t) = {}) => held = {}

\* Create_user has just succeeded in a tenant without a student role (its
\* user holds nothing), next to a tenant that has one.
C16_Witness ==
    /\ last.op = "create_user"
    /\ last.ok
    /\ HeldBy(db, last.ret) = {}
    /\ \E u \in db.users :
        /\ u.id = last.ret
        /\ StudentRolesOf(db, u.tenant_id) = {}
    /\ \E t \in TenantIds : StudentRolesOf(db, t) # {}

(***************************************************************************)
(* C18.  change_password(user, old, new): when old does not verify         *)
(* against the stored hash the call fails with the incorrect-password      *)
(* error and the store is unchanged; when old verifies the call succeeds   *)
(* and the stored hash is one that new verifies against and, new being     *)
(* another password, old does not.                                         *)
(***************************************************************************)
C18_ChangePassword ==
    \A u \in db.users, old \in AnyPasswords, new \in AnyPasswords :
        LET res == change_password(db, seq, u.id, old, new)
            stored == Row(res.db.users, u.id).password
        IN  IF check_password(old, u.password)
            THEN /\ res.ok
                 /\ check_password(new, stored)
                 /\ new # old => ~check_password(old, stored)
            ELSE /\ ~res.ok
                 /\ res.err = "Old password is incorrect"
                 /\ res.db = db

\* A password has just been changed: the user's stored hash verifies a
\* password other than the one it was created with; and a user created
\* without a password is stored too.
C18_Witness ==
    /\ last.op = "change_password"
    /\ last.ok
    /\ \E u \in db.users : u.id = last.ret /\ check_password("p2", u.password)
    /\ \E u \in db.users : u.password = UnsetPassword

(***************************************************************************)
(* C17.  Whatever the patch given to update_user (the tenant, the          *)
(* password or any other attribute of the user record), every user stored  *)
(* after the call was stored before it with the same tenant and the same   *)
(* password hash.                                                          *)
(***************************************************************************)
C17_UpdateUserKeepsTenantAndPassword ==
    [][last'.op = "update_user"
            => \A u \in db'.users : \E v \in db.users :
                    /\ v.id = u.id
                    /\ v.tenant_id = u.tenant_id
                    /\ v.password = u.password]_vars

(***************************************************************************)
(* C19.  IsTenantMember allows a request exactly when its actor is         *)
(* authenticated, a tenant is attached to it, and the actor is a user of   *)
(* that tenant; an anonymous request and a request without a tenant are    *)
(* denied.                                                                 *)
(***************************************************************************)
\* Every request: an anonymous or a stored actor, no tenant or a stored one.
AnyRequests ==
    {Request(a, t) : a \in UserIds \cup {NoId}, t \in TenantIds \cup {NoId}}

C19_TenantMemberIff ==
    \A request \in AnyRequests :
        IsTenantMember(db, request)
            <=> /\ request.user # NoId
                /\ request.tenant # NoId
                /\ \E u \in db.users :
                        u.id = request.user /\ u.tenant_id = request.tenant

\* An administrator has just assigned a role through the endpoint in its
\* tenant, and another tenant with its own user is stored.
C19_Witness ==
    /\ last.op = "user_assign_role"
    /\ last.ok
    /\ Cardinality({u.tenant_id : u \in db.users}) = 2
    /\ \E request \in AnyRequests :
            /\ request.user # NoId
            /\ request.tenant # NoId
            /\ ~IsTenantMember(db, request)

(***************************************************************************)
(* C20.  IsAdminRole allows a request exactly when its actor is            *)
(* authenticated, a tenant is attached, and a user role links the actor,   *)
(* that tenant and a role named admin; IsInstructorOrAdmin likewise with   *)
(* a role named admin or instructor.  An actor with the student role       *)
(* only, or with the admin role in another tenant only, is denied by both. *)
(***************************************************************************)
LinkedNames(D, request) ==
    {r.name : r \in {y \in D.roles :
        \E x \in D.user_roles :
            /\ x.user_id = request.user
            /\ x.tenant_id = request.tenant
            /\ x.role_id = y.id}}

C20_RolePermissionsIff ==
    \A request \in AnyRequests :
        LET resolved == request.user # NoId /\ request.tenant # NoId
            names == LinkedNames(db, request)
        IN  /\ IsAdminRole(db, request) <=> (resolved /\ ADMIN \in names)
            /\ IsInstructorOrAdmin(db, request)
                    <=> (resolved /\ names \cap {ADMIN, INSTRUCTOR} # {})
            /\ names \subseteq {STUDENT} =>
                    ~IsAdminRole(db, request) /\ ~IsInstructorOrAdmin(db, request)

\* A user has just been created through the endpoint and holds the student
\* role only: it is denied by both, while the administrator is allowed by
\* both.
C20_Witness ==
    /\ last.op = "user_create"
    /\ last.ok
    /\ \E u \in db.users :
        /\ u.id = last.ret
        /\ LinkedNames(db, Request(u.id, u.tenant_id)) = {STUDENT}
        /\ ~IsInstructorOrAdmin(db, Request(u.id, u.tenant_id))
        /\ ~IsAdminRole(db, Request(u.id, u.tenant_id))
        /\ \E a \in db.users :
            /\ IsAdminRole(db, Request(a.id, u.tenant_id))
            /\ IsInstructorOrAdmin(db, Request(a.id, u.tenant_id))

(***************************************************************************)
(* C21.  IsOwnerOrAdmin allows a request on an object exactly when its     *)
(* actor is authenticated and is the object's user (an object that has     *)
(* one), or is the object itself (an object that has none), or holds the   *)
(* admin role in the attached tenant.  An owner is allowed without a       *)
(* tenant; anyone else is denied without one.                              *)
(***************************************************************************)
\* The stored objects: users (no owner field) and user roles (owned).
StoredObjects == db.users \cup db.user_roles

IsOwner(request, obj) ==
    \/ "user_id" \in DOMAIN obj /\ obj.user_id = request.user
    \/ "user_id" \notin DOMAIN obj /\ obj.id = request.user

C21_OwnerOrAdminIff ==
    \A request \in AnyRequests : \A obj \in StoredObjects :
        LET allowed == has_object_permission(db, request, obj)
            admin == request.tenant # NoId /\ ADMIN \in LinkedNames(db, request)
        IN  /\ allowed <=> (request.user # NoId /\ (IsOwner(request, obj) \/ admin))
            /\ (request.user # NoId /\ request.tenant = NoId)
                    => (allowed <=> IsOwner(request, obj))

\* A member who holds the student role only has just updated its own user
\* through the endpoint, and a user role owned by another user has the id
\* of that member.
C21_Witness ==
    /\ last.op = "user_update"
    /\ last.ok
    /\ \E u \in db.users :
        /\ u.id = last.ret
        /\ ADMIN \notin LinkedNames(db, Request(u.id, u.tenant_id))
        /\ has_object_permission(db, Request(u.id, NoId), u)
        /\ \E x \in db.user_roles :
            /\ x.id = u.id
            /\ x.user_id # u.id
            /\ ~has_object_permission(db, Request(u.id, NoId), x)

(***************************************************************************)
(* C22.  has_permission(user, token, tenant) is true exactly when a role   *)
(* linked to the user by a user role of that tenant has the token among    *)
(* its permissions; CanManageUsers and CanManageRoles allow exactly when   *)
(* the actor is authenticated, a tenant is attached, and has_permission    *)
(* holds for them with manage_users, respectively manage_roles.            *)
(***************************************************************************)
LinkedPermissions(D, user_id, tenant_id) ==
    UNION {r.permissions : r \in {y \in D.roles :
        \E x \in D.user_roles :
            /\ x.user_id = user_id
            /\ x.tenant_id = tenant_id
            /\ x.role_id = y.id}}

C22_PermissionTokensIff ==
    /\ \A u \in UserIds, t \in TenantIds :
       \A token \in {"manage_users", "manage_roles", "create_courses", "enroll_courses"} :
            has_permission(db, u, token, t) <=> token \in LinkedPermissions(db, u, t)
    /\ \A request \in AnyRequests :
        LET resolved == request.user # NoId /\ request.tenant # NoId
        IN  /\ CanManageUsers(db, request)
                <=> (resolved /\ has_permission(db, request.user, "manage_users",
                                                request.tenant))
            /\ CanManageRoles(db, request)
                <=> (resolved /\ has_permission(db, request.user, "manage_roles",
                                                request.tenant))

\* An administrator has just assigned the instructor role through the
\* endpoint: the user it went to may create courses and may not manage
\* roles, and the administrator of another tenant manages roles there only.
C22_Witness ==
    /\ last.op = "user_assign_role"
    /\ last.ok
    /\ \E u \in UserIds, t \in TenantIds :
        /\ has_permission(db, u, "create_courses", t)
        /\ ~has_permission(db, u, "manage_roles", t)
    /\ \E u \in UserIds, t1 \in TenantIds, t2 \in TenantIds :
        /\ CanManageRoles(db, Request(u, t1))
        /\ ~CanManageRoles(db, Request(u, t2))

(***************************************************************************)
(* SpecRoles: tenants are provisioned or created bare, members are         *)
(* created, roles of a user's tenant are assigned to it and removed, the   *)
(* default roles are seeded again and a student role is customized.        *)
(***************************************************************************)
NextRoles ==
    \/ \E td \in TenantData : CreateTenantWithAdmin(td, AdminUserData, "none")
    \/ \E td \in TenantData : TenantCreate(td)
    \/ \E t \in TenantIds : CreateUser(MemberUserData, t, TRUE, "none")
    \/ \E u \in db.users, r \in db.roles :
            r.tenant_id = u.tenant_id /\ r.name # STUDENT
                /\ AssignRole(u.id, r.id, r.tenant_id, NoId)
    \/ \E u \in db.users, r \in db.roles :
            r.tenant_id = u.tenant_id /\ RemoveRole(u.id, r.id, r.tenant_id)
    \/ \E t \in TenantIds : SeedRolesForTenant(t)
    \/ \E r \in {x.id : x \in {y \in db.roles : y.name = STUDENT}} :
            RoleSave(r, {"view_courses"})

SpecRoles == Init /\ [][NextRoles]_vars

(***************************************************************************)
(* C23.  The permissions are computed from the rows stored when they are   *)
(* evaluated: right after remove_role(u, admin role, t) IsAdminRole        *)
(* denies u in t, right after a successful assign_role(u, admin role, t)   *)
(* it allows u in t, and after either call every role permission has the   *)
(* value the user roles and roles then stored give it.                     *)
(***************************************************************************)
FromRows(D) ==
    \A request \in AnyRequests :
        LET resolved == request.user # NoId /\ request.tenant # NoId
            names == LinkedNames(D, request)
            tokens == LinkedPermissions(D, request.user, request.tenant)
        IN  /\ IsAdminRole(D, request) <=> (resolved /\ ADMIN \in names)
            /\ IsInstructorOrAdmin(D, request)
                    <=> (resolved /\ names \cap {ADMIN, INSTRUCTOR} # {})
            /\ CanManageUsers(D, request) <=> (resolved /\ "manage_users" \in tokens)
            /\ CanManageRoles(D, request) <=> (resolved /\ "manage_roles" \in tokens)
            /\ resolved => (has_permission(D, request.user, "manage_users", request.tenant)
                                <=> "manage_users" \in tokens)

C23_PermissionsFollowGrants ==
    \A u \in UserIds : \A r \in {x \in db.roles : x.name = ADMIN} :
        LET removed == remove_role(db, seq, u, r.id, r.tenant_id)
            assigned == assign_role(db, seq, u, r.id, r.tenant_id, NoId)
        IN  /\ ~IsAdminRole(removed.db, Request(u, r.tenant_id))
            /\ FromRows(removed.db)
            /\ assigned.ok => /\ IsAdminRole(assigned.db, Request(u, r.tenant_id))
                              /\ FromRows(assigned.db)

\* The admin role has just been removed from a user, who is now denied,
\* and another user to whom it was assigned is allowed.
C23_Witness ==
    /\ last.op = "remove_role"
    /\ last.ret = 1
    /\ \E u \in db.users, v \in db.users :
        /\ u.tenant_id = v.tenant_id
        /\ ~IsAdminRole(db, Request(u.id, u.tenant_id))
        /\ HeldBy(db, u.id) = {}
        /\ u.is_staff
        /\ IsAdminRole(db, Request(v.id, v.tenant_id))
        /\ ~v.is_staff

(***************************************************************************)
(* C24.  remove_role(user, role, tenant) does not raise: it returns 1 and  *)
(* the assignment of the triple is gone when there was one, it returns 0   *)
(* and nothing changes when there was none, and every other user role and  *)
(* every other table is as before.                                         *)
(***************************************************************************)
C24_RemoveRoleFrame ==
    \A u \in UserIds, r \in RoleIds, t \in TenantIds :
        LET res == remove_role(db, seq, u, r, t)
            triple == {x \in db.user_roles :
                        x.user_id = u /\ x.role_id = r /\ x.tenant_id = t}
        IN  /\ res.ok
            /\ res.ret = (IF triple = {} THEN 0 ELSE 1)
            /\ triple = {} => res.db = db
            /\ res.db.user_roles = db.user_roles \ triple
            /\ res.db = [db EXCEPT !.user_roles = res.db.user_roles]

\* One of three user roles has just been removed, and the two others, of
\* two users, are stored.
C24_Witness ==
    /\ last.op = "remove_role"
    /\ last.ret = 1
    /\ seq.user_role = 4
    /\ Cardinality(db.user_roles) = 2
    /\ \E x \in db.user_roles, y \in db.user_roles : x.user_id # y.user_id

(***************************************************************************)
(* C25.  Seeding the default roles is idempotent: after the command's      *)
(* seeding or the provisioning helper has run for a tenant, the tenant     *)
(* has one role of each of the names admin, instructor and student, the    *)
(* roles it had before are untouched (customized permissions included),    *)
(* and a second run of either creates no role and changes nothing.         *)
(***************************************************************************)
RolesOf(D, tenant_id) == {r \in D.roles : r.tenant_id = tenant_id}

Seeded(D, before, tenant_id) ==
    /\ before.roles \subseteq D.roles
    /\ \A r \in D.roles \ before.roles : r.tenant_id = tenant_id
    /\ \A name \in RoleNames :
        Cardinality({r \in RolesOf(D, tenant_id) : r.name = name}) = 1
    /\ Cardinality(RolesOf(D, tenant_id)) = 3
    /\ D = [before EXCEPT !.roles = D.roles]

C25_SeedingIdempotent ==
    \A t \in TenantIds :
        LET c1 == seed_roles_for_tenant(db, seq, t)
            h1 == create_default_roles(db, seq, t)
            cc == seed_roles_for_tenant(c1.db, c1.seq, t)
            ch == create_default_roles(c1.db, c1.seq, t)
            hc == seed_roles_for_tenant(h1.db, h1.seq, t)
            hh == create_default_roles(h1.db, h1.seq, t)
        IN  /\ c1.ok /\ Seeded(c1.db, db, t)
            /\ h1.ok /\ Seeded(h1.db, db, t)
            /\ cc.ok /\ cc.db = c1.db /\ cc.ret = 0 /\ cc.seq = c1.seq
            /\ ch.ok /\ ch.db = c1.db /\ ch.seq = c1.seq
            /\ hc.ok /\ hc.db = h1.db /\ hc.ret = 0 /\ hc.seq = h1.seq
            /\ hh.ok /\ hh.db = h1.db /\ hh.ret = h1.ret /\ hh.seq = h1.seq

\* The command has just run for a tenant that had its roles, creating
\* none, and a customized student role stands as it was customized.
C25_Witness ==
    /\ last.op = "seed_default_roles"
    /\ last.ret = 0
    /\ \E r \in db.roles : r.name = STUDENT /\ r.permissions = {"view_courses"}
    /\ \A t \in TenantIds : Cardinality(RolesOf(db, t)) = 3

(***************************************************************************)
(* SpecTenants: tenants are registered or created through the serializer   *)
(* and their settings are updated.                                         *)
(***************************************************************************)
NextTenants ==
    \/ \E s \in DOMAIN SubdomainText :
            CreateTenantWithAdmin([subdomain |-> s], AdminUserData, "none")
    \/ \E s \in DOMAIN SubdomainText : TenantCreate([subdomain |-> s])
    \/ \E t \in TenantIds :
       \E settings_data \in {[theme |-> "dark"], [theme |-> "light"],
                             [existing |-> "value"],
                             [existing |-> "other", theme |-> "dark"]} :
            UpdateTenantSettings(t, settings_data)

SpecTenants == Init /\ [][NextTenants]_vars

(***************************************************************************)
(* C26.  update_tenant_settings(tenant, partial) merges: afterwards the    *)
(* settings have the keys of the previous settings and of partial and no   *)
(* other, each key of partial with partial's value and each other key      *)
(* with its previous value; the same partial applied a second time         *)
(* changes nothing.                                                        *)
(***************************************************************************)
C26_SettingsShallowMerge ==
    \A t \in db.tenants :
    \A partial \in {[theme |-> "dark"], [theme |-> "light"], [existing |-> "value"],
                    [existing |-> "other", theme |-> "dark"], [k \in {} |-> ""]} :
        LET once == update_tenant_settings(db, seq, t.id, partial)
            twice == update_tenant_settings(once.db, once.seq, t.id, partial)
            new == Row(once.db.tenants, t.id).settings
        IN  /\ once.ok
            /\ DOMAIN new = DOMAIN t.settings \cup DOMAIN partial
            /\ \A k \in DOMAIN partial : new[k] = partial[k]
            /\ \A k \in DOMAIN t.settings \ DOMAIN partial : new[k] = t.settings[k]
            /\ twice.ok /\ twice.db = once.db

\* The settings of a tenant have just been updated: they hold a key of an
\* earlier update next to the key of a later one.
C26_Witness ==
    /\ last.op = "update_tenant_settings"
    /\ last.ok
    /\ \E t \in db.tenants :
        /\ t.id = last.ret
        /\ DOMAIN t.settings = {"existing", "theme"}
        /\ t.settings["existing"] = "value"
        /\ t.settings["theme"] = "dark"

(***************************************************************************)
(* C29.  Every stored tenant has a subdomain that matches the pattern:     *)
(* lowercase letters, digits and hyphens, no hyphen first or last.         *)
(* Creating a tenant with the subdomain "Test-Co" fails and stores no      *)
(* tenant, through the serializer and through create_tenant_with_admin.    *)
(***************************************************************************)
C29_StoredSubdomainsMatch ==
    \A t \in db.tenants : RegexValidator(SubdomainText[t.subdomain])

(***************************************************************************)
(* C27.  Users are unique per tenant: no two users of a tenant share a     *)
(* username or an email; creating a user whose username or email a user    *)
(* of the same tenant has fails and adds no row; creating a user whose     *)
(* username and email no user of the tenant has succeeds, whatever users   *)
(* other tenants have.  Both through create_user and through the user      *)
(* endpoint called by a member who may manage users.                       *)
(***************************************************************************)
TakenIn(D, tenant_id, data) ==
    \E u \in D.users :
        /\ u.tenant_id = tenant_id
        /\ (u.username = data.username \/ u.email = data.email)

C27_UsersUniquePerTenant ==
    /\ \A u \in db.users, v \in db.users :
        (u.id # v.id /\ u.tenant_id = v.tenant_id)
            => (u.username # v.username /\ u.email # v.email)
    /\ \A n \in Names, e \in Emails, t \in TenantIds :
        LET data == [username |-> n, email |-> e, password |-> "p1"]
            made == create_user(db, seq, data, t, TRUE)
        IN  /\ IF TakenIn(db, t, data) THEN ~made.ok /\ made.db = db ELSE made.ok
            /\ \A actor \in UserIds :
                LET request == Request(actor, t)
                    res == UserViewSet_create(db, seq, request, data)
                IN  (IsTenantMember(db, request) /\ CanManageUsers(db, request))
                        => IF TakenIn(db, t, data)
                           THEN res.status = 400 /\ res.db = db
                           ELSE res.status = 201

(***************************************************************************)
(* C28.  A tenant is never deleted: whatever the services and the user,    *)
(* role and tenant endpoints are asked, the delete action of the tenant    *)
(* endpoint included, a tenant stored before a step is stored after it.    *)
(***************************************************************************)
C28_TenantsNeverDeleted ==
    [][\A t \in db.tenants : \E kept \in db'.tenants : kept.id = t.id]_vars

(***************************************************************************)
(* C30.  Whenever IsAdminRole, IsInstructorOrAdmin, CanManageUsers or      *)
(* CanManageRoles allows an actor with a tenant, the actor is a user of    *)
(* that tenant: IsTenantMember allows the pair too.                        *)
(***************************************************************************)
C30_RolePermissionsImplyMembership ==
    \A request \in AnyRequests :
        (\/ IsAdminRole(db, request)
         \/ IsInstructorOrAdmin(db, request)
         \/ CanManageUsers(db, request)
         \/ CanManageRoles(db, request))
            => IsTenantMember(db, request)

=============================================================================
